---- MODULE Spec2Model ----
(***************************************************************************)
(* Multi-stage anodizing controller: the experiment execution engine       *)
(* (experiment_controller.py), the sampling/storage pipeline               *)
(* (data_collector.py, storage_manager.py), the stage list                 *)
(* (stage_manager.py) and the callers that drive them (gui.py,             *)
(* batch_experiment_runner.py, run_experiments/run_experiments.py).        *)
(*                                                                         *)
(* Voltages are exact rationals <<numerator, denominator>>; a stage's      *)
(* duration is a rational number of seconds.  Every object that the GUI    *)
(* creates afresh for each start (ExperimentController, DataCollector,     *)
(* StorageManager, strategy) is indexed by the run it belongs to.          *)
(***************************************************************************)
EXTENDS Integers, Sequences, FiniteSets, TLC

\* ------------------------------------------------------------------ bounds
\* Number of runs (controller + collector + storage manager) ever created.
MaxRuns == 2
\* Capacity of the storage queue (max_queue_size), scaled down.
MaxQueueSize == 2
\* Capacity of a bounded live-view queue handed to the DataCollector.
PlotMax == 1

\* Calls made on one strategy object by its client.
MaxCalls == 3
\* Largest reading of time.time() a strategy call can see, in clock ticks.
MaxTime == 2
\* Longest stage list the StageManager is driven to.
MaxStages == 3
\* Length of the index list handed to delete_stage.
MaxIndices == 2
\* Calls made on the StageManager by its client.
MaxSmCalls == 2

Runs == 1..MaxRuns

\* ------------------------------------------------------------------ state
VARIABLES
    stages,                 \* StageManager.stages
    plotKind,               \* plot_queue argument: "none", "unbounded", "bounded"
    strategy,               \* class of control_strategy: "Linear", "Feedforward"
    gateway,                \* what serial_manager.power_supply returns for a failed read
    deviceVolts,            \* outcomes of a read of REG_VOLTAGE: ReadError or a register value
    deviceAmps,             \* outcomes of a read of REG_CURRENT
    ctor,                   \* constructor arguments of control_strategy: Kp, Ki, Kd, output_limits
    pid,                    \* PIDStrategy._integral, _previous_error, _last_time
    calls,                  \* calls made on control_strategy by its client, in order
    smCall,                 \* the last call made on the StageManager, with its outcome
    iterStages,             \* stage list as it was when the for-loop of a run obtained it
    ioFail,                 \* rows (by sequence number) at which csv writerow raises
    stepDurations,          \* time the body of a step may take, in seconds
    setCalls,               \* set_setpoint calls the loop has made in the stage, per run
    clock,                  \* time.perf_counter() - start_time of the stage, per run
    attempts,               \* samples handed to store_data, in order, per run
    plot_queue,             \* the live-view queue
    experiment_done_event,  \* threading.Event shared by every run
    plot_stop_event,
    storage_stop_event,
    protection,             \* device register REG_PROTECTION_STATE
    psVoltage,              \* device register REG_VOLTAGE_SET (last commanded)
    power_supply,           \* serial_manager.power_supply is set (not None)
    operative,              \* device register REG_OPERATIVE_MODE
    conn,                   \* PowerSupply construction inside SerialManager.connect
    nRuns,                  \* runs created so far; the newest is gui.experiment_controller
    is_experiment_running,  \* ExperimentController.is_experiment_running, per run
    sample_rate,            \* argument of start_experiment, per run
    consumerPc,             \* ExperimentController.storage_thread, per run
    loopPc,                 \* position of collect_data_with_sample_rate, per run
    stageIdx,               \* list iterator of the for-loop over the stages
    step,                   \* loop variable `step`
    cur,                    \* locals voltage_start, voltage_end, steps of the stage
    current_setpoint,       \* local current_setpoint
    last,                   \* locals last_measured_voltage, last_control_signal, last_current
    setpoint,               \* control_strategy.setpoint
    storage_queue,          \* DataCollector.storage_queue, per run
    dc_is_running,          \* DataCollector.is_running
    workerPc,               \* position of DataCollector._storage_worker
    writer,                 \* StorageManager.writer is set
    rows,                   \* rows written by StorageManager.store_data
    emitted,                \* samples handed to collect_data_for_stage, in order
    monPc,                  \* position of the thread inside monitor_experiment, per run
    button_start,           \* GUI: the Start button is enabled
    button_stop,            \* GUI: the Stop button is enabled
    pc,                     \* position of each caller thread
    callRun,                \* run whose controller/collector a caller's current call is on
    startArg,               \* sample_rate argument of a caller's start_experiment call
    status                  \* result_data["status"] written by execute_experiment

cfgCore  == <<stages, plotKind, strategy, gateway, deviceVolts, deviceAmps,
              ctor, pid, calls, smCall, iterStages>>
auxVars  == <<ioFail, stepDurations, setCalls, clock, attempts>>
cfgVars  == <<cfgCore, auxVars>>
guiVars  == <<button_start, button_stop>>
devVars  == <<protection, psVoltage, power_supply, operative, conn>>
devOther == <<protection, power_supply, operative, conn>>
evtVars  == <<experiment_done_event, plot_stop_event, storage_stop_event>>
loopVars == <<loopPc, stageIdx, step, cur, current_setpoint, last, setpoint>>
dcVars   == <<storage_queue, dc_is_running, workerPc>>
smVars   == <<writer, rows>>
ctlVars  == <<nRuns, is_experiment_running, sample_rate, consumerPc>>
callVars == <<pc, callRun, startArg, status>>
vars == <<cfgVars, plot_queue, devVars, evtVars, monPc, loopVars, dcVars,
          smVars, ctlVars, callVars, guiVars, emitted>>

\* ---------------------------------------------------------------- helpers
Max(a, b) == IF a >= b THEN a ELSE b

Last(s) == s[Len(s)]

\* Python int(): truncation toward zero of n/d (d > 0).
TruncDiv(n, d) == IF n >= 0 THEN n \div d ELSE -((-n) \div d)

Rat(n) == <<n, 1>>

RatEq(a, b) == a[1] * b[2] = b[1] * a[2]

RatLe(a, b) == a[1] * b[2] <= b[1] * a[2]

RatAdd(a, b) == <<a[1] * b[2] + b[1] * a[2], a[2] * b[2]>>

RatSub(a, b) == <<a[1] * b[2] - b[1] * a[2], a[2] * b[2]>>

RatMul(a, b) == <<a[1] * b[1], a[2] * b[2]>>

\* max(lo, min(x, hi))
Clamp(x, lo, hi) == IF RatLe(x, lo) THEN lo ELSE IF RatLe(hi, x) THEN hi ELSE x

\* Python's None where a number is expected.
None == <<0, 0>>

\* steps = max(1, int(duration * sample_rate))
StepsFor(time, rate) == Max(1, TruncDiv(time[1] * rate, time[2]))

\* Targets that start one increment above voltage_start.
TargetAtNext(c, k) ==
    <<c.voltage_start * c.steps + (c.voltage_end - c.voltage_start) * (k + 1), c.steps>>

\* target_voltage = voltage_start + increment * step,
\* increment = (voltage_end - voltage_start) / steps
TargetAt(c, k) == <<c.voltage_start * c.steps + (c.voltage_end - c.voltage_start) * k, c.steps>>

NoStage == [voltage_start |-> 0, voltage_end |-> 0, steps |-> 1]

\* The locals last_measured_voltage, last_control_signal, last_current, with
\* what the step's two reads were: the device outcome (vraw, iraw) and the
\* value the gateway returned for it (vgot, igot); NoRead before any step.
NoRead == -2

LastAt(v) == [measured_voltage |-> v, control_signal |-> v, current |-> <<0, 1>>,
              vraw |-> NoRead, vgot |-> None, iraw |-> NoRead, igot |-> None]

NoLast == LastAt(<<0, 1>>)

\* The sentinel None that close() puts on the storage queue.
Sentinel ==
    [run |-> 0, seq |-> 0, stage |-> 0, step |-> 0, final |-> FALSE, target |-> <<0, 1>>,
     measured_voltage |-> <<0, 1>>, control_signal |-> <<0, 1>>, current |-> <<0, 1>>,
     vraw |-> NoRead, vgot |-> None, iraw |-> NoRead, igot |-> None]

IsSentinel(x) == x.run = 0

\* -------------------------------------------------------- PowerSupply
\* read_protection_state: the five flags decoded from the register.
ProtectionFlags(reg) ==
    [OVP |-> reg % 2,
     OCP |-> (reg \div 2) % 2,
     OPP |-> (reg \div 4) % 2,
     OTP |-> (reg \div 8) % 2,
     SCP |-> (reg \div 16) % 2]

AnyProtection(reg) == \E f \in DOMAIN ProtectionFlags(reg) : ProtectionFlags(reg)[f] = 1

\* Register values the device may latch when a protection trips.
TripValues == {1, 6, 16}

\* The device trips a protection while its output is driven.
Trip ==
    /\ protection = 0
    /\ \E r \in Runs : loopPc[r] \in {"step_io", "step_emit", "step_wait"}
    /\ \E v \in TripValues : protection' = v
    /\ UNCHANGED <<cfgVars, monPc, guiVars, plot_queue, psVoltage, power_supply, operative, conn,
                   evtVars, loopVars,
                   dcVars, smVars, ctlVars, callVars, emitted>>

\* Outcome of a register read that fails (error response or exception).
ReadError == -1

\* Scaling factors read from REG_DOT by initialize_parameters.
V_dot == 10
A_dot == 10

\* read(reg): the register value, 0 when the read fails.
Read(raw) == IF raw = ReadError THEN 0 ELSE raw

\* get_voltage(): read(REG_VOLTAGE) / V_dot
GetVoltage(raw) == <<Read(raw), V_dot>>

\* get_current(): read(REG_CURRENT) / A_dot
GetCurrent(raw) == <<Read(raw), A_dot>>

\* What the loop receives from serial_manager.power_supply.get_voltage(): the
\* PowerSupply's value, or None from a gateway that reports a failed read the
\* way the loop provides for (`if measured_voltage is None`).
GatewayVoltage(raw) ==
    IF gateway = "Optional" /\ raw = ReadError THEN None ELSE GetVoltage(raw)

GatewayCurrent(raw) ==
    IF gateway = "Optional" /\ raw = ReadError THEN None ELSE GetCurrent(raw)

\* set_voltage(v): the value lands in the set-voltage register.
SetVoltage(v) == psVoltage' = v

\* ------------------------------------------------- SerialManager.connect
\* Largest number of retries tried.
MaxRetries == 4

\* State of a connect(port) call: outcome of each client.connect() in turn
\* (plan), the retries argument, the attempts made, where the constructor is,
\* and what connect() returned.
Connected ==
    [plan |-> <<>>, retries |-> 0, attempt |-> 0, state |-> "connected", result |-> "ok"]

\* A loop that goes on to the next attempt whatever client.connect() returned.
AttemptIgnoresSuccess(ok) == "connecting"

\* _connect_with_retries, lines 29-31: return when client.connect() succeeds.
AttemptOutcome(ok) == IF ok THEN "connected" ELSE "connecting"

\* _connect_with_retries: one iteration of `for attempt in range(1, retries + 1)`.
ConnectAttempt ==
    /\ conn.state = "connecting"
    /\ conn.attempt < conn.retries
    /\ conn' = [conn EXCEPT !.attempt = @ + 1,
                            !.state = AttemptOutcome(conn.plan[conn.attempt + 1])]
    /\ UNCHANGED <<cfgVars, monPc, guiVars, plot_queue, protection, psVoltage, power_supply,
                   operative, evtVars, loopVars, dcVars, smVars, ctlVars, callVars, emitted>>

\* _connect_with_retries, lines 35-36: the loop is exhausted, ModbusConnectionError.
ConnectRaise ==
    /\ conn.state = "connecting"
    /\ conn.attempt >= conn.retries
    /\ conn' = [conn EXCEPT !.state = "raised"]
    /\ UNCHANGED <<cfgVars, monPc, guiVars, plot_queue, protection, psVoltage, power_supply,
                   operative, evtVars, loopVars, dcVars, smVars, ctlVars, callVars, emitted>>

\* SerialManager.connect, lines 38-47: power_supply is assigned and (True, ...)
\* returned when the constructor returns, (False, ...) when it raises.
ConnectReturn ==
    /\ conn.state \in {"connected", "raised"}
    /\ conn.result = "none"
    /\ conn' = [conn EXCEPT !.result = IF conn.state = "connected" THEN "ok" ELSE "failed"]
    /\ power_supply' = (conn.state = "connected" \/ power_supply)
    /\ UNCHANGED <<cfgVars, monPc, guiVars, plot_queue, protection, psVoltage, operative,
                   evtVars, loopVars, dcVars, smVars, ctlVars, callVars, emitted>>

\* ---------------------------------------------------- control_strategy.py
\* FeedforwardWithFeedbackStrategy(Kp, output_limits) as execute_experiment
\* builds it.
Kp == <<1, 2>>
output_limits == << <<0, 1>>, <<50, 1>> >>

\* The constructor arguments of that strategy (Ki, Kd are PID's alone).
DefaultCtor == [Kp |-> Kp, Ki |-> <<0, 1>>, Kd |-> <<0, 1>>, output_limits |-> output_limits]

Abs(n) == IF n < 0 THEN -n ELSE n

RECURSIVE Gcd(_, _)
Gcd(a, b) == IF b = 0 THEN a ELSE Gcd(b, a % b)

\* A rational in lowest terms (denominator > 0).
Norm(x) == LET g == Gcd(Abs(x[1]), x[2]) IN <<x[1] \div g, x[2] \div g>>

\* a / b for b > 0
RatDiv(a, b) == <<a[1] * b[2], a[2] * b[1]>>

\* An update that hands the measurement back.
LinearEcho(sp, measured) == measured

\* LinearStrategy.update
LinearUpdate(sp, measured) == sp

\* A feedforward strategy without its feedback term.
FeedforwardOpenLoop(c, sp, measured) == Clamp(sp, c.output_limits[1], c.output_limits[2])

\* FeedforwardWithFeedbackStrategy.update of an object built with c
FeedforwardOutput(c, sp, measured) ==
    Clamp(RatAdd(sp, RatMul(c.Kp, RatSub(sp, measured))), c.output_limits[1], c.output_limits[2])

\* FeedforwardWithFeedbackStrategy.update
FeedforwardUpdate(sp, measured) == FeedforwardOutput(ctor, sp, measured)

\* An update that hands the setpoint back whatever the strategy.
UpdateIgnoresMeasurement(sp, measured) == sp

\* control_strategy.update(measured) with the setpoint sp
Update(sp, measured) ==
    IF strategy = "Linear" THEN LinearUpdate(sp, measured) ELSE FeedforwardUpdate(sp, measured)

\* PIDStrategy.__init__ at clock reading t: _integral, _previous_error, _last_time
FreshPid(t) == [integral |-> <<0, 1>>, previous_error |-> <<0, 1>>, last_time |-> t]

\* A set_setpoint that keeps the accumulated integral and the previous error.
PIDSetSetpointKeeps(p, t) == [p EXCEPT !.last_time = t]

\* PIDStrategy.set_setpoint, lines 34-36
PIDSetSetpoint(p, t) == [integral |-> <<0, 1>>, previous_error |-> <<0, 1>>, last_time |-> t]

\* The floor of delta_time (1e-16 s in the source), as a fraction of a clock
\* tick that 32-bit arithmetic can carry.
MinDelta == <<1, 8>>

\* Lines 39-42: delta_time = current_time - self._last_time, floored
DeltaTime(t, last_time) == IF t - last_time <= 0 THEN MinDelta ELSE <<t - last_time, 1>>

\* Line 45: self._integral += error * delta_time
PIDIntegral(p, error, dt) == Norm(RatAdd(p.integral, RatMul(error, dt)))

\* Lines 46-48: the output before the limits are applied
PIDRaw(c, p, error, dt) ==
    Norm(RatAdd(RatAdd(RatMul(c.Kp, error), RatMul(c.Ki, PIDIntegral(p, error, dt))),
                RatMul(c.Kd, RatDiv(RatSub(error, p.previous_error), dt))))

\* An update whose output is not limited.
PIDUnlimited(x, limits) == x

\* Line 50: output = max(output_limits[0], min(output, output_limits[1]))
PIDLimit(x, limits) == Clamp(x, limits[1], limits[2])

\* PIDStrategy.update(measured) at clock reading t:
\* the value returned and the fields it leaves behind.
PIDUpdate(c, sp, p, measured, t) ==
    LET dt == DeltaTime(t, p.last_time)
        error == Norm(RatSub(sp, measured))
    IN [raw |-> PIDRaw(c, p, error, dt),
        value |-> PIDLimit(PIDRaw(c, p, error, dt), c.output_limits),
        pid |-> [integral |-> PIDIntegral(p, error, dt), previous_error |-> error,
                 last_time |-> t]]

\* The fields of the strategy object of run 1.
StrategyState(sp, p) ==
    [setpoint |-> sp, integral |-> p.integral, previous_error |-> p.previous_error,
     last_time |-> p.last_time]

\* time.time() as a call of the strategy reads it (PIDStrategy alone reads it).
ClockReadings == IF strategy = "PID" THEN 0..MaxTime ELSE {0}

\* set_setpoint(v) called on the strategy by its client
StrategySetSetpoint(v) ==
    /\ Len(calls) < MaxCalls
    /\ \E t \in ClockReadings :
         LET p == IF strategy = "PID" THEN PIDSetSetpoint(pid, t) ELSE pid IN
         /\ setpoint' = [setpoint EXCEPT ![1] = v]
         /\ pid' = p
         /\ calls' = Append(calls, [op |-> "set_setpoint", arg |-> v, t |-> t,
                                    raw |-> None, value |-> None,
                                    pre |-> StrategyState(setpoint[1], pid),
                                    post |-> StrategyState(v, p)])
    /\ UNCHANGED <<auxVars, stages, plotKind, strategy, gateway, deviceVolts, deviceAmps, ctor, smCall,
                   iterStages, monPc, guiVars, plot_queue, devVars, evtVars, loopPc, stageIdx,
                   step, cur, current_setpoint, last, dcVars, smVars, ctlVars, callVars, emitted>>

\* update(measured) called on the strategy by its client
StrategyUpdate(measured) ==
    /\ Len(calls) < MaxCalls
    /\ \E t \in ClockReadings :
         LET u == PIDUpdate(ctor, setpoint[1], pid, measured, t)
             p == IF strategy = "PID" THEN u.pid ELSE pid
             raw == IF strategy = "PID" THEN u.raw ELSE None
             value == CASE strategy = "PID" -> u.value
                        [] strategy = "Linear" -> LinearUpdate(setpoint[1], measured)
                        [] OTHER -> FeedforwardOutput(ctor, setpoint[1], measured)
         IN /\ pid' = p
            /\ calls' = Append(calls, [op |-> "update", arg |-> measured, t |-> t,
                                       raw |-> raw, value |-> value,
                                       pre |-> StrategyState(setpoint[1], pid),
                                       post |-> StrategyState(setpoint[1], p)])
    /\ UNCHANGED <<auxVars, stages, plotKind, strategy, gateway, deviceVolts, deviceAmps, ctor, smCall,
                   iterStages, monPc, guiVars, plot_queue, devVars, evtVars, loopVars, dcVars,
                   smVars, ctlVars, callVars, emitted>>

\* reset() called on the strategy by its client: LinearStrategy and
\* FeedforwardWithFeedbackStrategy clear the setpoint, PIDStrategy clears
\* _integral and _previous_error and restarts _last_time.
StrategyReset ==
    /\ Len(calls) < MaxCalls
    /\ \E t \in ClockReadings :
         LET p == IF strategy = "PID" THEN FreshPid(t) ELSE pid
             sp == IF strategy = "PID" THEN setpoint[1] ELSE <<0, 1>>
         IN /\ setpoint' = [setpoint EXCEPT ![1] = sp]
            /\ pid' = p
            /\ calls' = Append(calls, [op |-> "reset", arg |-> None, t |-> t,
                                       raw |-> None, value |-> None,
                                       pre |-> StrategyState(setpoint[1], pid),
                                       post |-> StrategyState(sp, p)])
    /\ UNCHANGED <<auxVars, stages, plotKind, strategy, gateway, deviceVolts, deviceAmps, ctor, smCall,
                   iterStages, monPc, guiVars, plot_queue, devVars, evtVars, loopPc, stageIdx,
                   step, cur, current_setpoint, last, dcVars, smVars, ctlVars, callVars, emitted>>

\* ------------------------------------------------------- stage_manager.py
\* add_stage accepts anything.
AlwaysValid(vs, ve, d) == TRUE

\* Line 25 negated: the arguments add_stage does not raise ValueError for
\* (d is the duration, a rational with a positive denominator).
AddStageValid(vs, ve, d) == ~(vs < 0 \/ ve < 0 \/ d[1] <= 0)

NoCall == [n |-> 0, op |-> "none", args |-> <<>>, before |-> <<>>, raised |-> FALSE]

\* add_stage(vs, ve, d) called by a client of the StageManager
AddStage(vs, ve, d) ==
    /\ smCall.n < MaxSmCalls
    /\ Len(stages) < MaxStages
    /\ stages' = IF AddStageValid(vs, ve, d)
                    THEN Append(stages, [voltage_start |-> vs, voltage_end |-> ve, time |-> d])
                    ELSE stages
    /\ smCall' = [n |-> smCall.n + 1, op |-> "add_stage", args |-> <<vs, ve, d>>,
                  before |-> stages, raised |-> ~AddStageValid(vs, ve, d)]
    /\ UNCHANGED <<auxVars, plotKind, strategy, gateway, deviceVolts, deviceAmps, ctor, pid, calls,
                   iterStages, monPc, guiVars, plot_queue, devVars, evtVars, loopVars, dcVars,
                   smVars, ctlVars, callVars, emitted>>

\* self.stages.pop(index) for a zero-based index
Pop(s, index) == SubSeq(s, 1, index) \o SubSeq(s, index + 2, Len(s))

\* sorted(indices, reverse=True)
RECURSIVE SortedReverse(_)
SortedReverse(indices) ==
    IF indices = <<>> THEN <<>>
    ELSE LET m == CHOOSE k \in DOMAIN indices : \A j \in DOMAIN indices : indices[j] <= indices[k]
         IN <<indices[m]>> \o SortedReverse(SubSeq(indices, 1, m - 1) \o
                                            SubSeq(indices, m + 1, Len(indices)))

\* Lines 47-52: the body of the for-loop for each index in turn
RECURSIVE DeleteEach(_, _)
DeleteEach(s, indices) ==
    IF indices = <<>> THEN s
    ELSE DeleteEach(IF 0 <= Head(indices) /\ Head(indices) < Len(s)
                       THEN Pop(s, Head(indices)) ELSE s,
                    Tail(indices))

\* delete_stage(indices) called by a client of the StageManager
DeleteStage(indices) ==
    /\ smCall.n < MaxSmCalls
    /\ stages' = DeleteEach(stages, SortedReverse(indices))
    /\ smCall' = [n |-> smCall.n + 1, op |-> "delete_stage", args |-> indices,
                  before |-> stages, raised |-> FALSE]
    /\ UNCHANGED <<auxVars, plotKind, strategy, gateway, deviceVolts, deviceAmps, ctor, pid, calls,
                   iterStages, monPc, guiVars, plot_queue, devVars, evtVars, loopVars, dcVars,
                   smVars, ctlVars, callVars, emitted>>

\* The objects as their constructors leave them: a strategy built at clock
\* reading 0 and not called yet, a StageManager not called yet, no for-loop
\* started.
InitObjects ==
    /\ pid = FreshPid(0)
    /\ calls = <<>>
    /\ smCall = NoCall
    /\ iterStages = [r \in Runs |-> <<>>]
    /\ setCalls = [r \in Runs |-> 0]
    /\ clock = [r \in Runs |-> <<0, 1>>]
    /\ attempts = [r \in Runs |-> <<>>]

\* ------------------------------------------------------- threading.Event
\* experiment_done_event.set(): the flag is raised and every thread blocked
\* in experiment_done_event.wait() is released.
SetDone ==
    /\ experiment_done_event' = TRUE
    /\ monPc' = [r \in Runs |-> IF monPc[r] = "blocked" THEN "woken" ELSE monPc[r]]

\* -------------------------------------------------------- DataCollector
PlotFull == plotKind = "bounded" /\ Len(plot_queue) >= PlotMax

StorageFull(q) == Len(q) >= MaxQueueSize

\* A put that always takes the sample, as a blocking put would once it returns.
StoragePutAlways(q, s) == Append(q, s)

\* storage_queue.put_nowait(s): the queue after the call (unchanged when
\* queue.Full is raised and swallowed by the handler of collect_data_for_stage).
StoragePutNowait(q, s) == IF StorageFull(q) THEN q ELSE Append(q, s)

\* collect_data_for_stage(s) called by the control loop of run r.
CollectDataForStage(r, s) ==
    /\ emitted' = [emitted EXCEPT ![r] = Append(@, s)]
    /\ IF plotKind # "none" /\ PlotFull
          THEN \* plot_queue.put_nowait raises queue.Full: the storage put is skipped
               UNCHANGED <<plot_queue, storage_queue>>
          ELSE /\ plot_queue' = IF plotKind = "none" THEN plot_queue
                                ELSE Append(plot_queue, [run |-> s.run, seq |-> s.seq])
               /\ storage_queue' = [storage_queue EXCEPT ![r] = StoragePutNowait(@, s)]

\* A worker that stops as soon as is_running is cleared.
WorkerStopsOnFlag(r) == dc_is_running[r]

\* Loop condition of _storage_worker.
WorkerContinues(r) == dc_is_running[r] \/ storage_queue[r] # <<>>

\* A get() that hands out the newest item instead of the oldest.
QueueGetNewest(q) == <<q[Len(q)], SubSeq(q, 1, Len(q) - 1)>>

\* storage_queue.get() on a non-empty queue: <<item handed out, queue left>>.
QueueGet(q) == <<Head(q), Tail(q)>>

\* store_data(d) writes the row: it raises DataStorageError when the writer
\* is gone, and when writerow raises.
StoreOk(r, d) == writer[r] /\ d.seq \notin ioFail

\* A worker that ends at the first store_data that raises.
WorkerStopsOnError(d, ok) == IF IsSentinel(d) \/ ~ok THEN "exited" ELSE "running"

\* Where the worker is after item d: the sentinel breaks the loop, a stored
\* item and an item whose store_data raised both lead to the next iteration.
WorkerAfter(d, ok) == IF IsSentinel(d) THEN "exited" ELSE "running"

\* One iteration of the loop of _storage_worker: the loop condition, then
\* storage_queue.get(timeout=0.1) (an empty queue times out and the loop goes
\* round), the sentinel ends the thread, anything else goes to store_data,
\* which raises DataStorageError when the writer is gone; the worker logs
\* that and goes on with the next item.  The worker is the only consumer of
\* its queue, so nothing can take the item between the condition and the get.
WorkerIterate(r) ==
    /\ workerPc[r] = "running"
    /\ ~WorkerContinues(r) \/ storage_queue[r] # <<>>
    /\ IF ~WorkerContinues(r)
          THEN /\ workerPc' = [workerPc EXCEPT ![r] = "exited"]
               /\ UNCHANGED <<storage_queue, rows, attempts>>
          ELSE LET d == QueueGet(storage_queue[r])[1] IN
               /\ storage_queue' = [storage_queue EXCEPT ![r] = QueueGet(@)[2]]
               /\ workerPc' = [workerPc EXCEPT ![r] = WorkerAfter(d, StoreOk(r, d))]
               /\ attempts' = IF IsSentinel(d) THEN attempts
                               ELSE [attempts EXCEPT ![r] = Append(@, d)]
               /\ rows' = IF ~IsSentinel(d) /\ StoreOk(r, d)
                             THEN [rows EXCEPT ![r] = Append(@, d)]
                             ELSE rows
    /\ UNCHANGED <<cfgCore, ioFail, stepDurations, setCalls, clock, monPc, guiVars, plot_queue, devVars, evtVars, loopVars,
                   dc_is_running, writer, ctlVars, callVars, emitted>>

\* The live-view consumer _update_plot, a callback of the GUI thread:
\* plot_queue.get_nowait() until the queue is empty.
PlotConsume ==
    /\ plotKind # "none"
    /\ pc["gui"] = "idle"
    /\ plot_queue # <<>>
    /\ plot_queue' = <<>>
    /\ UNCHANGED <<cfgVars, monPc, guiVars, devVars, evtVars, loopVars, dcVars, smVars,
                   ctlVars, callVars, emitted>>

\* close(), first statement: self.is_running = False
CloseFlag(th) ==
    /\ pc[th] = "close_flag"
    /\ dc_is_running' = [dc_is_running EXCEPT ![callRun[th]] = FALSE]
    /\ pc' = [pc EXCEPT ![th] = "close_put"]
    /\ UNCHANGED <<cfgVars, monPc, guiVars, plot_queue, devVars, evtVars, loopVars, storage_queue,
                   workerPc, smVars, ctlVars, callRun, startArg, status, emitted>>

\* close(), second statement: self.storage_queue.put(None), blocking while full
ClosePut(th) ==
    /\ pc[th] = "close_put"
    /\ ~StorageFull(storage_queue[callRun[th]])
    /\ storage_queue' = [storage_queue EXCEPT ![callRun[th]] = Append(@, Sentinel)]
    /\ pc' = [pc EXCEPT ![th] = "close_join"]
    /\ UNCHANGED <<cfgVars, monPc, guiVars, plot_queue, devVars, evtVars, loopVars,
                   dc_is_running, workerPc, smVars, ctlVars, callRun, startArg, status, emitted>>

\* Where a caller goes on after close() has returned.
AfterClose(th) ==
    CASE th = "batch" -> "b_close_storage"
      [] th = "exec" -> "e_close_storage"
      [] th = "gui" -> "stop_finish"
      [] th = "cleanup" -> "c_close_storage"
      [] OTHER -> "closed"

\* close(), third statement: self.storage_thread.join()
CloseJoin(th) ==
    /\ pc[th] = "close_join"
    /\ workerPc[callRun[th]] = "exited"
    /\ pc' = [pc EXCEPT ![th] = AfterClose(th)]
    /\ UNCHANGED <<cfgVars, monPc, guiVars, plot_queue, devVars, evtVars, loopVars, dcVars,
                   smVars, ctlVars, callRun, startArg, status, emitted>>

\* ------------------------------------------ collect_data_with_sample_rate
InTry == {"stage_begin", "step_io", "step_emit", "step_wait", "stage_final"}

\* sample_interval = 1.0 / sample_rate, before the try block, and the
\* iterator of the for-loop over get_stages() (line 32)
LoopEnter(r) ==
    /\ loopPc[r] = "enter"
    /\ loopPc' = [loopPc EXCEPT ![r] = IF sample_rate[r] = 0 THEN "crashed" ELSE "stage_begin"]
    /\ stageIdx' = [stageIdx EXCEPT ![r] = 1]
    /\ iterStages' = [iterStages EXCEPT ![r] = stages]
    /\ UNCHANGED <<auxVars, stages, plotKind, strategy, gateway, deviceVolts, deviceAmps, ctor, pid, calls,
                   smCall, monPc, guiVars, plot_queue, devVars, evtVars, step, cur,
                   current_setpoint, last, setpoint, dcVars, smVars, ctlVars, callVars, emitted>>

\* Next stage of the for-loop: locals, set_voltage(voltage_start), set_setpoint
StageBegin(r) ==
    /\ loopPc[r] = "stage_begin"
    /\ stageIdx[r] <= Len(stages)
    /\ power_supply
    /\ LET s == stages[stageIdx[r]] IN
       /\ cur' = [cur EXCEPT ![r] = [voltage_start |-> s.voltage_start,
                                     voltage_end |-> s.voltage_end,
                                     steps |-> StepsFor(s.time, sample_rate[r])]]
       /\ SetVoltage(Rat(s.voltage_start))
       /\ setpoint' = [setpoint EXCEPT ![r] = Rat(s.voltage_start)]
       /\ current_setpoint' = [current_setpoint EXCEPT ![r] = Rat(s.voltage_start)]
       /\ last' = [last EXCEPT ![r] = LastAt(Rat(s.voltage_start))]
    /\ setCalls' = [setCalls EXCEPT ![r] = 1]
    /\ clock' = [clock EXCEPT ![r] = <<0, 1>>]
    /\ step' = [step EXCEPT ![r] = 0]
    /\ loopPc' = [loopPc EXCEPT ![r] = "step_io"]
    /\ UNCHANGED <<cfgCore, ioFail, stepDurations, attempts, monPc, guiVars, plot_queue, devOther, evtVars, stageIdx,
                   dcVars, smVars, ctlVars, callVars, emitted>>

\* A guard that calls set_setpoint at every step.
SetpointAlwaysChanged(cs, target) == TRUE

\* Line 58: current_setpoint != target_voltage
SetpointChanged(cs, target) == ~RatEq(cs, target)

\* Lines 57-77 of a step: setpoint, the two reads with their fallback to the
\* last values, strategy update, device write; the body takes one of the
\* durations of stepDurations.
StepIO(r) ==
    /\ loopPc[r] = "step_io"
    /\ power_supply
    /\ \E rv \in deviceVolts, ri \in deviceAmps, d \in stepDurations :
         LET target == TargetAt(cur[r], step[r])
             changed == SetpointChanged(current_setpoint[r], target)
             sp == IF changed THEN target ELSE setpoint[r]
             vgot == GatewayVoltage(rv)
             measured_voltage == IF vgot = None THEN last[r].measured_voltage ELSE vgot
             igot == GatewayCurrent(ri)
             current == IF igot = None THEN last[r].current ELSE igot
             control_signal == Update(sp, measured_voltage)
         IN /\ setpoint' = [setpoint EXCEPT ![r] = sp]
            /\ setCalls' = [setCalls EXCEPT ![r] = IF changed THEN @ + 1 ELSE @]
            /\ current_setpoint' = [current_setpoint EXCEPT ![r] =
                                      IF changed THEN target ELSE @]
            /\ clock' = [clock EXCEPT ![r] = Norm(RatAdd(@, d))]
            /\ SetVoltage(control_signal)
            /\ last' = [last EXCEPT ![r] =
                          [measured_voltage |-> measured_voltage,
                           control_signal |-> control_signal, current |-> current,
                           vraw |-> rv, vgot |-> vgot, iraw |-> ri, igot |-> igot]]
    /\ loopPc' = [loopPc EXCEPT ![r] = "step_emit"]
    /\ UNCHANGED <<cfgCore, ioFail, stepDurations, attempts, monPc, guiVars, plot_queue, devOther, evtVars, stageIdx, step, cur,
                   dcVars, smVars, ctlVars, callVars, emitted>>

\* ExperimentData(...) of lines 80-92
StepSample(r) ==
    [run |-> r, seq |-> Len(emitted[r]) + 1, stage |-> stageIdx[r], step |-> step[r],
     final |-> FALSE, target |-> TargetAt(cur[r], step[r]),
     measured_voltage |-> last[r].measured_voltage,
     control_signal |-> last[r].control_signal, current |-> last[r].current,
     vraw |-> last[r].vraw, vgot |-> last[r].vgot, iraw |-> last[r].iraw, igot |-> last[r].igot]

\* Lines 79-93: the step's sample goes to the collector.
StepEmit(r) ==
    /\ loopPc[r] = "step_emit"
    /\ CollectDataForStage(r, StepSample(r))
    /\ loopPc' = [loopPc EXCEPT ![r] = "step_wait"]
    /\ UNCHANGED <<cfgVars, monPc, guiVars, devVars, evtVars, stageIdx, step, cur, current_setpoint, last,
                   setpoint, dc_is_running, workerPc, smVars, ctlVars, callVars>>

\* The range(steps) loop after step k: another step, or the stage's end.
AfterStepInclusive(k, steps) == IF k + 1 <= steps THEN "step_io" ELSE "stage_final"

AfterStep(k, steps) == IF k + 1 < steps THEN "step_io" ELSE "stage_final"

\* Line 97: expected_time - start_time = (step + 1) * (1 / sample_rate)
Deadline(k, rate) == IF rate > 0 THEN Norm(<<k + 1, rate>>) ELSE Norm(<<-(k + 1), -rate>>)

\* A loop that sleeps one sample interval after every step.
AfterFixedSleep(c, k, rate) == Norm(RatAdd(c, Deadline(0, rate)))

\* Lines 96-102: the clock after the wait of step k, read as c before it:
\* sleep(expected_time - current_time) when that is positive, no sleep and a
\* warning otherwise.
AfterSleep(c, k, rate) == IF RatLe(Deadline(k, rate), c) THEN c ELSE Deadline(k, rate)

\* Lines 95-107: sleep to the step's deadline, then the next iteration.
StepWait(r) ==
    /\ loopPc[r] = "step_wait"
    /\ clock' = [clock EXCEPT ![r] = AfterSleep(@, step[r], sample_rate[r])]
    /\ step' = [step EXCEPT ![r] = @ + 1]
    /\ loopPc' = [loopPc EXCEPT ![r] = AfterStep(step[r], cur[r].steps)]
    /\ UNCHANGED <<cfgCore, ioFail, stepDurations, setCalls, attempts, monPc, guiVars, plot_queue, devVars, evtVars, stageIdx, cur, current_setpoint, last,
                   setpoint, dcVars, smVars, ctlVars, callVars, emitted>>

\* A final sample that repeats the target of the last step.
FinalSampleLastTarget(r) ==
    [run |-> r, seq |-> Len(emitted[r]) + 1, stage |-> stageIdx[r], step |-> cur[r].steps,
     final |-> TRUE, target |-> TargetAt(cur[r], cur[r].steps - 1),
     measured_voltage |-> last[r].measured_voltage,
     control_signal |-> last[r].control_signal, current |-> last[r].current,
     vraw |-> NoRead, vgot |-> None, iraw |-> NoRead, igot |-> None]

\* final_experiment_data of lines 113-124
FinalSample(r) ==
    [run |-> r, seq |-> Len(emitted[r]) + 1, stage |-> stageIdx[r], step |-> cur[r].steps,
     final |-> TRUE, target |-> Rat(cur[r].voltage_end),
     measured_voltage |-> last[r].measured_voltage,
     control_signal |-> last[r].control_signal, current |-> last[r].current,
     vraw |-> NoRead, vgot |-> None, iraw |-> NoRead, igot |-> None]

\* Lines 109-128: corrective write (current_voltage is still voltage_start),
\* final sample of the stage.
StageFinal(r) ==
    /\ loopPc[r] = "stage_final"
    /\ IF cur[r].voltage_start # cur[r].voltage_end
          THEN power_supply /\ SetVoltage(Rat(cur[r].voltage_end))
          ELSE UNCHANGED psVoltage
    /\ CollectDataForStage(r, FinalSample(r))
    /\ stageIdx' = [stageIdx EXCEPT ![r] = @ + 1]
    /\ loopPc' = [loopPc EXCEPT ![r] = "stage_begin"]
    /\ UNCHANGED <<cfgVars, monPc, guiVars, devOther, evtVars, step, cur, current_setpoint, last,
                   setpoint, dc_is_running, workerPc, smVars, ctlVars, callVars>>

\* Line 130: the for-loop is exhausted.
LoopFinish(r) ==
    /\ loopPc[r] = "stage_begin"
    /\ stageIdx[r] > Len(stages)
    /\ SetDone
    /\ loopPc' = [loopPc EXCEPT ![r] = "done"]
    /\ UNCHANGED <<cfgVars, guiVars, plot_queue, devVars, plot_stop_event, storage_stop_event,
                   stageIdx, step, cur, current_setpoint, last, setpoint, dcVars, smVars, ctlVars,
                   callVars, emitted>>

\* Lines 132-134: an exception raised by a call inside the try block.
LoopRaise(r) ==
    /\ loopPc[r] \in InTry
    /\ SetDone
    /\ loopPc' = [loopPc EXCEPT ![r] = "failed"]
    /\ UNCHANGED <<cfgVars, guiVars, plot_queue, devVars, plot_stop_event, storage_stop_event,
                   stageIdx, step, cur, current_setpoint, last, setpoint, dcVars, smVars, ctlVars,
                   callVars, emitted>>

\* The point of the loop where its next statement is a call on
\* self.serial_manager.power_supply.
AtDeviceCall(r) ==
    \/ loopPc[r] = "stage_begin" /\ stageIdx[r] <= Len(stages)
    \/ loopPc[r] = "step_io"
    \/ loopPc[r] = "stage_final" /\ cur[r].voltage_start # cur[r].voltage_end

\* The call finds serial_manager.power_supply set to None by disconnect():
\* AttributeError, caught by the except branch (lines 132-134).
LoopDeviceGone(r) ==
    /\ AtDeviceCall(r)
    /\ ~power_supply
    /\ SetDone
    /\ loopPc' = [loopPc EXCEPT ![r] = "failed"]
    /\ UNCHANGED <<cfgVars, guiVars, plot_queue, devVars, plot_stop_event, storage_stop_event,
                   stageIdx, step, cur, current_setpoint, last, setpoint, dcVars, smVars, ctlVars,
                   callVars, emitted>>

\* ---------------------------------------------------- ExperimentController
\* A start_experiment that never finds a run in progress.
NeverRunning(r) == FALSE

\* if self.is_experiment_running: (guard of start_experiment)
AlreadyRunning(r) == is_experiment_running[r]

\* Where a caller goes on after start_experiment has returned.
AfterStart(th) ==
    CASE th = "exec" -> "e_monitor"
      [] OTHER -> "idle"

\* start_experiment's effect on the controller of run r when no run is in
\* progress (lines 142-156): flag, events cleared, both threads started.
Spawn(r, rate) ==
    /\ is_experiment_running' = [is_experiment_running EXCEPT ![r] = TRUE]
    /\ experiment_done_event' = FALSE
    /\ storage_stop_event' = FALSE
    /\ consumerPc' = [consumerPc EXCEPT ![r] = "running"]
    /\ sample_rate' = [sample_rate EXCEPT ![r] = rate]
    /\ loopPc' = [loopPc EXCEPT ![r] = "enter"]

\* start_experiment(sample_rate) called by thread th: warn and return when a
\* run is in progress (lines 138-140), start the run otherwise.
StartExperiment(th) ==
    /\ pc[th] = "start"
    /\ IF AlreadyRunning(callRun[th])
          THEN UNCHANGED <<is_experiment_running, experiment_done_event, storage_stop_event,
                           consumerPc, sample_rate, loopPc>>
          ELSE Spawn(callRun[th], startArg[th])
    /\ pc' = [pc EXCEPT ![th] = AfterStart(th)]
    /\ UNCHANGED <<cfgVars, monPc, guiVars, plot_queue, devVars, plot_stop_event, stageIdx, step,
                   cur, current_setpoint, last, setpoint, dcVars, smVars, nRuns, callRun, startArg,
                   status, emitted>>

\* storage_consumer: polls storage_stop_event, returns once it is set.
StorageConsumerExit(r) ==
    /\ consumerPc[r] = "running"
    /\ storage_stop_event
    /\ consumerPc' = [consumerPc EXCEPT ![r] = "ended"]
    /\ UNCHANGED <<cfgVars, monPc, guiVars, plot_queue, devVars, evtVars, loopVars, dcVars,
                   smVars, nRuns, is_experiment_running, sample_rate, callVars, emitted>>

\* monitor_experiment, line 165: experiment_done_event.wait() returns at once
\* when the event is set and blocks otherwise.
MonitorWait == IF experiment_done_event THEN "woken" ELSE "blocked"

\* monitor_experiment, lines 168-169: both stop events set.
MonitorSignal(r) ==
    /\ monPc[r] = "woken"
    /\ plot_stop_event' = TRUE
    /\ storage_stop_event' = TRUE
    /\ monPc' = [monPc EXCEPT ![r] = "join"]
    /\ UNCHANGED <<cfgVars, guiVars, plot_queue, devVars, experiment_done_event, loopVars, dcVars,
                   smVars, ctlVars, callVars, emitted>>

\* monitor_experiment, lines 171-175: join the storage thread, clear the flag.
MonitorJoin(r) ==
    /\ monPc[r] = "join"
    /\ consumerPc[r] # "running"
    /\ is_experiment_running' = [is_experiment_running EXCEPT ![r] = FALSE]
    /\ monPc' = [monPc EXCEPT ![r] = "returned"]
    /\ UNCHANGED <<cfgVars, guiVars, plot_queue, devVars, evtVars, loopVars, dcVars,
                   smVars, nRuns, sample_rate, consumerPc, callVars, emitted>>

\* -------------------------------------------------------- StorageManager
\* close_storage(): file and writer dropped.
CloseStorage(r) == writer' = [writer EXCEPT ![r] = FALSE]

\* ------------------------------------ batch_experiment_runner.run_experiment
\* Line 65: collect_data_with_sample_rate runs on the caller's own thread.
BatchLoopReturns ==
    /\ pc["batch"] = "b_run"
    /\ loopPc[1] \in {"done", "failed", "crashed"}
    /\ pc' = [pc EXCEPT !["batch"] = IF loopPc[1] = "crashed" THEN "b_failed" ELSE "close_flag"]
    /\ callRun' = [callRun EXCEPT !["batch"] = 1]
    /\ power_supply' = (loopPc[1] = "crashed" /\ power_supply)
    /\ UNCHANGED <<cfgVars, monPc, guiVars, plot_queue, protection, psVoltage, operative, conn, evtVars,
                   loopVars, dcVars, smVars, ctlVars, startArg, status, emitted>>

\* Line 70: storage_manager.close_storage()
BatchCloseStorage ==
    /\ pc["batch"] = "b_close_storage"
    /\ CloseStorage(1)
    /\ pc' = [pc EXCEPT !["batch"] = "b_end"]
    /\ UNCHANGED <<cfgVars, monPc, guiVars, plot_queue, devVars, evtVars, loopVars, dcVars, rows,
                   ctlVars, callRun, startArg, status, emitted>>

\* ------------------------------------------------------------ configurations
Stage(v0, v1, t) == [voltage_start |-> v0, voltage_end |-> v1, time |-> t]

StageLists ==
    { <<Stage(0, 2, <<2, 1>>)>>,
      <<Stage(1, 1, <<1, 1>>), Stage(1, 3, <<3, 2>>)>>,
      <<Stage(2, 0, <<1, 2>>), Stage(0, 0, <<2, 1>>)>> }

Threads == {"batch", "exec", "api", "gui", "cleanup"}

InitRun ==
    /\ InitObjects
    /\ is_experiment_running = [r \in Runs |-> FALSE]
    /\ consumerPc = [r \in Runs |-> "none"]
    /\ stageIdx = [r \in Runs |-> 1]
    /\ step = [r \in Runs |-> 0]
    /\ cur = [r \in Runs |-> NoStage]
    /\ current_setpoint = [r \in Runs |-> <<0, 1>>]
    /\ last = [r \in Runs |-> NoLast]
    /\ setpoint = [r \in Runs |-> <<0, 1>>]
    /\ storage_queue = [r \in Runs |-> <<>>]
    /\ rows = [r \in Runs |-> <<>>]
    /\ emitted = [r \in Runs |-> <<>>]
    /\ plot_queue = <<>>
    /\ experiment_done_event = FALSE
    /\ plot_stop_event = FALSE
    /\ storage_stop_event = FALSE
    /\ protection = 0
    /\ psVoltage = <<0, 1>>
    /\ power_supply = TRUE
    /\ operative = 0
    /\ conn = Connected
    /\ monPc = [r \in Runs |-> "none"]
    /\ status = "none"

\* A PowerSupply whose reads succeed with one value, driven by strat; steps
\* that take no time and a disk that takes every row.
FixedDevice(strat) ==
    /\ strategy = strat
    /\ ioFail = {}
    /\ stepDurations = {<<0, 1>>}
    /\ ctor = DefaultCtor
    /\ gateway = "PowerSupply"
    /\ deviceVolts = {10}
    /\ deviceAmps = {5}

\* run_experiment after its constructors: storage initialised, DataCollector
\* created (worker started), controller created, about to call the loop.  The
\* stage list, the sample rate and the plot_queue argument of the DataCollector
\* (None, an unbounded or a bounded queue) range over what the constructors
\* accept.
InitBatch ==
    /\ InitRun
    /\ button_start = FALSE
    /\ button_stop = FALSE
    /\ stages \in StageLists
    /\ plotKind \in {"none", "unbounded", "bounded"}
    /\ FixedDevice("Feedforward")
    /\ nRuns = 1
    /\ sample_rate \in {[r \in Runs |-> x] : x \in {1, 2}}
    /\ loopPc = [r \in Runs |-> IF r = 1 THEN "enter" ELSE "none"]
    /\ dc_is_running = [r \in Runs |-> r = 1]
    /\ workerPc = [r \in Runs |-> IF r = 1 THEN "running" ELSE "none"]
    /\ writer = [r \in Runs |-> r = 1]
    /\ pc = [th \in Threads |-> IF th = "batch" THEN "b_run" ELSE "idle"]
    /\ callRun = [th \in Threads |-> 1]
    /\ startArg = [th \in Threads |-> 1]

NextBatch ==
    \/ LoopEnter(1)
    \/ StageBegin(1)
    \/ StepIO(1)
    \/ StepEmit(1)
    \/ StepWait(1)
    \/ StageFinal(1)
    \/ LoopFinish(1)
    \/ LoopRaise(1)
    \/ WorkerIterate(1)
    \/ PlotConsume
    \/ BatchLoopReturns
    \/ CloseFlag("batch")
    \/ ClosePut("batch")
    \/ CloseJoin("batch")
    \/ BatchCloseStorage

SpecBatch == InitBatch /\ [][NextBatch]_vars

\* ----------------------------------------- run_experiments.execute_experiment
\* Line 173: experiment_controller.monitor_experiment() on the caller's thread.
ExecCallMonitor ==
    /\ pc["exec"] = "e_monitor"
    /\ pc' = [pc EXCEPT !["exec"] = "e_in_monitor"]
    /\ monPc' = [monPc EXCEPT ![1] = MonitorWait]
    /\ UNCHANGED <<cfgVars, guiVars, plot_queue, devVars, evtVars, loopVars, dcVars,
                   smVars, ctlVars, callRun, startArg, status, emitted>>

ExecMonitorReturns ==
    /\ pc["exec"] = "e_in_monitor"
    /\ monPc[1] = "returned"
    /\ pc' = [pc EXCEPT !["exec"] = "e_status"]
    /\ UNCHANGED <<cfgVars, monPc, guiVars, plot_queue, devVars, evtVars, loopVars, dcVars,
                   smVars, ctlVars, callRun, startArg, status, emitted>>

\* Lines 176-189: the result row is written with "status": "Success".
ExecStatus ==
    /\ pc["exec"] = "e_status"
    /\ status' = "Success"
    /\ pc' = [pc EXCEPT !["exec"] = "e_reset"]
    /\ UNCHANGED <<cfgVars, monPc, guiVars, plot_queue, devVars, evtVars, loopVars, dcVars,
                   smVars, ctlVars, callRun, startArg, emitted>>

\* Line 192: serial_manager.power_supply.set_voltage(0); then data_collector.close()
ExecReset ==
    /\ pc["exec"] = "e_reset"
    /\ SetVoltage(<<0, 1>>)
    /\ pc' = [pc EXCEPT !["exec"] = "close_flag"]
    /\ UNCHANGED <<cfgVars, monPc, guiVars, plot_queue, devOther, evtVars, loopVars, dcVars,
                   smVars, ctlVars, callRun, startArg, status, emitted>>

\* Line 197: storage_manager.close_storage()
ExecCloseStorage ==
    /\ pc["exec"] = "e_close_storage"
    /\ CloseStorage(1)
    /\ pc' = [pc EXCEPT !["exec"] = "e_end"]
    /\ UNCHANGED <<cfgVars, monPc, guiVars, plot_queue, devVars, evtVars, loopVars, dcVars, rows,
                   ctlVars, callRun, startArg, status, emitted>>

\* One stage per experiment (the stage list is cleared, then add_stage).
ExecStageLists ==
    { <<Stage(0, 2, <<2, 1>>)>>, <<Stage(1, 1, <<3, 2>>)>>, <<Stage(3, 0, <<3, 1>>)>> }

\* int(parameter["Sampling Rate (Hz)"]) is handed on unchecked.
ExecRates == {-1, 0, 1, 2}

\* execute_experiment after its constructors, about to call start_experiment.
InitExec ==
    /\ InitRun
    /\ button_start = FALSE
    /\ button_stop = FALSE
    /\ stages \in ExecStageLists
    /\ plotKind = "none"
    /\ FixedDevice("Feedforward")
    /\ nRuns = 1
    /\ sample_rate = [r \in Runs |-> 1]
    /\ loopPc = [r \in Runs |-> "none"]
    /\ dc_is_running = [r \in Runs |-> r = 1]
    /\ workerPc = [r \in Runs |-> IF r = 1 THEN "running" ELSE "none"]
    /\ writer = [r \in Runs |-> r = 1]
    /\ pc = [th \in Threads |-> IF th = "exec" THEN "start" ELSE "idle"]
    /\ \E x \in ExecRates : startArg = [th \in Threads |-> x]
    /\ callRun = [th \in Threads |-> 1]

NextExec ==
    \/ StartExperiment("exec")
    \/ StorageConsumerExit(1)
    \/ LoopEnter(1)
    \/ StageBegin(1)
    \/ StepIO(1)
    \/ StepEmit(1)
    \/ StepWait(1)
    \/ StageFinal(1)
    \/ LoopFinish(1)
    \/ LoopRaise(1)
    \/ Trip
    \/ WorkerIterate(1)
    \/ ExecCallMonitor
    \/ MonitorSignal(1)
    \/ MonitorJoin(1)
    \/ ExecMonitorReturns
    \/ ExecStatus
    \/ ExecReset
    \/ CloseFlag("exec")
    \/ ClosePut("exec")
    \/ CloseJoin("exec")
    \/ ExecCloseStorage

SpecExec == InitExec /\ [][NextExec]_vars

\* ------------------------------------- a client of the controller's interface
\* The client calls start_experiment(sample_rate), also while a run is going on.
ApiCallStart ==
    /\ pc["api"] = "idle"
    /\ loopPc[1] \notin {"done", "failed", "crashed"}
    /\ \E x \in {1, 2} : startArg' = [startArg EXCEPT !["api"] = x]
    /\ pc' = [pc EXCEPT !["api"] = "start"]
    /\ UNCHANGED <<cfgVars, monPc, guiVars, plot_queue, devVars, evtVars, loopVars, dcVars,
                   smVars, ctlVars, callRun, status, emitted>>

\* The client calls monitor_experiment() for the run it started.
ApiCallMonitor ==
    /\ pc["api"] = "idle"
    /\ monPc[1] = "none"
    /\ is_experiment_running[1]
    /\ pc' = [pc EXCEPT !["api"] = "a_in_monitor"]
    /\ monPc' = [monPc EXCEPT ![1] = MonitorWait]
    /\ UNCHANGED <<cfgVars, guiVars, plot_queue, devVars, evtVars, loopVars, dcVars,
                   smVars, ctlVars, callRun, startArg, status, emitted>>

ApiMonitorReturns ==
    /\ pc["api"] = "a_in_monitor"
    /\ monPc[1] = "returned"
    /\ pc' = [pc EXCEPT !["api"] = "idle"]
    /\ UNCHANGED <<cfgVars, monPc, guiVars, plot_queue, devVars, evtVars, loopVars, dcVars,
                   smVars, ctlVars, callRun, startArg, status, emitted>>

InitApi ==
    /\ InitRun
    /\ button_start = FALSE
    /\ button_stop = FALSE
    /\ stages \in ExecStageLists
    /\ plotKind = "none"
    /\ FixedDevice("Linear")
    /\ nRuns = 1
    /\ sample_rate = [r \in Runs |-> 1]
    /\ loopPc = [r \in Runs |-> "none"]
    /\ dc_is_running = [r \in Runs |-> r = 1]
    /\ workerPc = [r \in Runs |-> IF r = 1 THEN "running" ELSE "none"]
    /\ writer = [r \in Runs |-> r = 1]
    /\ pc = [th \in Threads |-> "idle"]
    /\ startArg = [th \in Threads |-> 1]
    /\ callRun = [th \in Threads |-> 1]

NextApi ==
    \/ ApiCallStart
    \/ StartExperiment("api")
    \/ StorageConsumerExit(1)
    \/ LoopEnter(1)
    \/ StageBegin(1)
    \/ StepIO(1)
    \/ StepEmit(1)
    \/ StepWait(1)
    \/ StageFinal(1)
    \/ LoopFinish(1)
    \/ LoopRaise(1)
    \/ WorkerIterate(1)
    \/ ApiCallMonitor
    \/ MonitorSignal(1)
    \/ MonitorJoin(1)
    \/ ApiMonitorReturns

SpecApi == InitApi /\ [][NextApi]_vars

\* ------------------------------------------------------------ ExperimentGUI
\* _get_sample_rate accepts positive rates only.
GuiRates == {1}

\* start_experiment (gui.py): the checks, a new StorageManager, DataCollector
\* (its worker starts) and ExperimentController, controller.start_experiment
\* on the new controller, the monitor thread, the button states.
GuiStart ==
    /\ pc["gui"] = "idle"
    /\ button_start
    /\ stages # <<>>
    /\ power_supply
    /\ ~(nRuns > 0 /\ is_experiment_running[nRuns])
    /\ nRuns < MaxRuns
    /\ LET r == nRuns + 1 IN
       /\ nRuns' = r
       /\ writer' = [writer EXCEPT ![r] = TRUE]
       /\ dc_is_running' = [dc_is_running EXCEPT ![r] = TRUE]
       /\ workerPc' = [workerPc EXCEPT ![r] = "running"]
       /\ \E x \in GuiRates : Spawn(r, x)
       /\ monPc' = [monPc EXCEPT ![r] = "blocked"]
    /\ operative' = 1
    /\ button_start' = FALSE
    /\ button_stop' = TRUE
    /\ UNCHANGED <<cfgVars, plot_queue, protection, psVoltage, power_supply, conn, plot_stop_event,
                   stageIdx, step, cur, current_setpoint, last, setpoint, storage_queue, rows,
                   callVars, emitted>>

\* stop_experiment, lines 337-351: the three events are set, the join on the
\* controller's storage thread gives up after its timeout, then
\* data_collector.close() is entered.
GuiStopBegin ==
    /\ pc["gui"] = "idle"
    /\ button_stop
    /\ nRuns > 0
    /\ is_experiment_running[nRuns]
    /\ SetDone
    /\ plot_stop_event' = TRUE
    /\ storage_stop_event' = TRUE
    /\ callRun' = [callRun EXCEPT !["gui"] = nRuns]
    /\ pc' = [pc EXCEPT !["gui"] = "close_flag"]
    /\ UNCHANGED <<cfgVars, guiVars, plot_queue, devVars, loopVars, dcVars,
                   smVars, ctlVars, startArg, status, emitted>>

\* stop_experiment, lines 354-356: flag cleared, buttons swapped.
GuiStopFinish ==
    /\ pc["gui"] = "stop_finish"
    /\ is_experiment_running' = [is_experiment_running EXCEPT ![callRun["gui"]] = FALSE]
    /\ button_start' = TRUE
    /\ button_stop' = FALSE
    /\ pc' = [pc EXCEPT !["gui"] = "idle"]
    /\ UNCHANGED <<cfgVars, monPc, plot_queue, devVars, evtVars, loopVars, dcVars,
                   smVars, nRuns, sample_rate, consumerPc, callRun, startArg, status, emitted>>

\* monitor_experiment (gui.py) after the controller's monitor has returned:
\* _handle_experiment_completion sets the stop events and resets the buttons.
GuiCompletion(r) ==
    /\ monPc[r] = "returned"
    /\ plot_stop_event' = TRUE
    /\ storage_stop_event' = TRUE
    /\ button_start' = TRUE
    /\ button_stop' = FALSE
    /\ monPc' = [monPc EXCEPT ![r] = "finished"]
    /\ UNCHANGED <<cfgVars, plot_queue, devVars, experiment_done_event, loopVars, dcVars,
                   smVars, ctlVars, callVars, emitted>>

GuiStageLists ==
    { <<Stage(0, 2, <<1, 1>>)>> }

\* The window after a serial port has been connected and stages were added.
Init ==
    /\ InitRun
    /\ button_start = TRUE
    /\ button_stop = FALSE
    /\ stages \in GuiStageLists
    /\ plotKind = "unbounded"
    /\ FixedDevice("Linear")
    /\ nRuns = 0
    /\ sample_rate = [r \in Runs |-> 1]
    /\ loopPc = [r \in Runs |-> "none"]
    /\ dc_is_running = [r \in Runs |-> FALSE]
    /\ workerPc = [r \in Runs |-> "none"]
    /\ writer = [r \in Runs |-> FALSE]
    /\ pc = [th \in Threads |-> "idle"]
    /\ startArg = [th \in Threads |-> 1]
    /\ callRun = [th \in Threads |-> 1]

Next ==
    \/ GuiStart
    \/ GuiStopBegin
    \/ CloseFlag("gui")
    \/ ClosePut("gui")
    \/ CloseJoin("gui")
    \/ GuiStopFinish
    \/ PlotConsume
    \/ \E r \in Runs :
          \/ StorageConsumerExit(r)
          \/ LoopEnter(r)
          \/ StageBegin(r)
          \/ StepIO(r)
          \/ StepEmit(r)
          \/ StepWait(r)
          \/ StageFinal(r)
          \/ LoopFinish(r)
          \/ WorkerIterate(r)
          \/ MonitorSignal(r)
          \/ MonitorJoin(r)
          \/ GuiCompletion(r)

Spec == Init /\ [][Next]_vars

\* Every thread of the program is scheduled again and again: the storage
\* workers, the control loops, the storage consumers, the monitor threads and
\* the window's thread inside stop_experiment; nothing is assumed of the user.
FairSpec ==
    /\ Spec
    /\ \A r \in Runs :
          /\ WF_vars(WorkerIterate(r))
          /\ WF_vars(LoopEnter(r) \/ StageBegin(r) \/ StepIO(r) \/ StepEmit(r) \/ StepWait(r)
                        \/ StageFinal(r) \/ LoopFinish(r))
          /\ WF_vars(StorageConsumerExit(r))
          /\ WF_vars(MonitorSignal(r) \/ MonitorJoin(r) \/ GuiCompletion(r))
    /\ WF_vars(CloseFlag("gui") \/ ClosePut("gui") \/ CloseJoin("gui") \/ GuiStopFinish)

\* ------------------------------------------------ gui.py: closing the window
\* on_closing: the user confirms, _cleanup_and_exit is started on a thread of
\* its own while the window goes on serving events.
OnClosing ==
    /\ pc["gui"] = "idle"
    /\ pc["cleanup"] = "idle"
    /\ pc' = [pc EXCEPT !["cleanup"] = "c_mode"]
    /\ UNCHANGED <<cfgVars, monPc, guiVars, plot_queue, devVars, evtVars, loopVars, dcVars,
                   smVars, ctlVars, callRun, startArg, status, emitted>>

\* _cleanup_and_exit, lines 555-559: power_supply.operative_mode(0)
CleanupOperativeMode ==
    /\ pc["cleanup"] = "c_mode"
    /\ operative' = IF power_supply THEN 0 ELSE operative
    /\ pc' = [pc EXCEPT !["cleanup"] = "c_voltage"]
    /\ UNCHANGED <<cfgVars, monPc, guiVars, plot_queue, protection, psVoltage, power_supply, conn,
                   evtVars, loopVars, dcVars, smVars, ctlVars, callRun, startArg, status, emitted>>

\* _cleanup_and_exit, lines 561-565: power_supply.set_voltage(0)
CleanupSetVoltage ==
    /\ pc["cleanup"] = "c_voltage"
    /\ IF power_supply THEN SetVoltage(<<0, 1>>) ELSE UNCHANGED psVoltage
    /\ pc' = [pc EXCEPT !["cleanup"] = "c_stop"]
    /\ UNCHANGED <<cfgVars, monPc, guiVars, plot_queue, devOther, evtVars, loopVars, dcVars,
                   smVars, ctlVars, callRun, startArg, status, emitted>>

\* _cleanup_and_exit, lines 567-579: the newest run, if its flag is set, is
\* signalled and its flag cleared; then data_collector.close() is entered when
\* a collector exists.
CleanupStop ==
    /\ pc["cleanup"] = "c_stop"
    /\ IF nRuns > 0 /\ is_experiment_running[nRuns]
          THEN /\ SetDone
               /\ plot_stop_event' = TRUE
               /\ storage_stop_event' = TRUE
               /\ is_experiment_running' = [is_experiment_running EXCEPT ![nRuns] = FALSE]
          ELSE UNCHANGED <<evtVars, monPc, is_experiment_running>>
    /\ callRun' = [callRun EXCEPT !["cleanup"] = Max(1, nRuns)]
    /\ pc' = [pc EXCEPT !["cleanup"] = IF nRuns > 0 THEN "close_flag" ELSE "c_disconnect"]
    /\ UNCHANGED <<cfgVars, guiVars, plot_queue, devVars, loopVars, dcVars, smVars, nRuns,
                   sample_rate, consumerPc, startArg, status, emitted>>

\* _cleanup_and_exit, lines 581-584: storage_manager.close_storage()
CleanupCloseStorage ==
    /\ pc["cleanup"] = "c_close_storage"
    /\ CloseStorage(callRun["cleanup"])
    /\ pc' = [pc EXCEPT !["cleanup"] = "c_disconnect"]
    /\ UNCHANGED <<cfgVars, monPc, guiVars, plot_queue, devVars, evtVars, loopVars, dcVars, rows,
                   ctlVars, callRun, startArg, status, emitted>>

\* _cleanup_and_exit, lines 586-601: serial_manager.disconnect(), then the
\* window is destroyed.
CleanupDisconnect ==
    /\ pc["cleanup"] = "c_disconnect"
    /\ power_supply' = FALSE
    /\ pc' = [pc EXCEPT !["cleanup"] = "c_end", !["gui"] = "destroyed"]
    /\ UNCHANGED <<cfgVars, monPc, guiVars, plot_queue, protection, psVoltage, operative, conn, evtVars,
                   loopVars, dcVars, smVars, ctlVars, callRun, startArg, status, emitted>>

\* The window with a serial port connected and stages added; the user starts
\* runs and closes the window at any moment.
NextClose ==
    \/ GuiStart
    \/ PlotConsume
    \/ OnClosing
    \/ CleanupOperativeMode
    \/ CleanupSetVoltage
    \/ CleanupStop
    \/ CloseFlag("cleanup")
    \/ ClosePut("cleanup")
    \/ CloseJoin("cleanup")
    \/ CleanupCloseStorage
    \/ CleanupDisconnect
    \/ \E r \in Runs :
          \/ StorageConsumerExit(r)
          \/ LoopEnter(r)
          \/ StageBegin(r)
          \/ StepIO(r)
          \/ StepEmit(r)
          \/ StepWait(r)
          \/ StageFinal(r)
          \/ LoopFinish(r)
          \/ LoopDeviceGone(r)
          \/ WorkerIterate(r)
          \/ MonitorSignal(r)
          \/ MonitorJoin(r)
          \/ GuiCompletion(r)

SpecClose == Init /\ [][NextClose]_vars

\* --------------------------------------------- DataCollector on its own
\* Samples a client hands to the collector before it closes it.
MaxSamples == 3

\* collect_data_for_stage(sample) called by the client, as the control loop
\* calls it for every sample.
ClientCollect ==
    /\ pc["api"] = "collect"
    /\ Len(emitted[1]) < MaxSamples
    /\ CollectDataForStage(1, StepSample(1))
    /\ UNCHANGED <<cfgVars, monPc, guiVars, devVars, evtVars, loopVars, dc_is_running, workerPc,
                   smVars, ctlVars, callVars>>

\* The client calls close().
ClientClose ==
    /\ pc["api"] = "collect"
    /\ pc' = [pc EXCEPT !["api"] = "close_flag"]
    /\ UNCHANGED <<cfgVars, monPc, guiVars, plot_queue, devVars, evtVars, loopVars, dcVars,
                   smVars, ctlVars, callRun, startArg, status, emitted>>

\* Rows at which the disk fails: none, the first, the second, every row.
IoFailures == {{}, {1}, {2}, 1..(MaxSamples + 1)}

\* A DataCollector just constructed (worker started) on a StorageManager
\* whose storage is initialised or not, and whose disk fails at some rows.
InitCollector ==
    /\ InitRun
    /\ button_start = FALSE
    /\ button_stop = FALSE
    /\ stages = <<>>
    /\ plotKind = "none"
    /\ strategy = "Linear"
    /\ ctor = DefaultCtor
    /\ ioFail \in IoFailures
    /\ stepDurations = {<<0, 1>>}
    /\ gateway = "PowerSupply"
    /\ deviceVolts = {10}
    /\ deviceAmps = {5}
    /\ nRuns = 1
    /\ sample_rate = [r \in Runs |-> 1]
    /\ loopPc = [r \in Runs |-> "none"]
    /\ dc_is_running = [r \in Runs |-> r = 1]
    /\ workerPc = [r \in Runs |-> IF r = 1 THEN "running" ELSE "none"]
    /\ \E w \in BOOLEAN : writer = [r \in Runs |-> w /\ r = 1]
    /\ pc = [th \in Threads |-> IF th = "api" THEN "collect" ELSE "idle"]
    /\ callRun = [th \in Threads |-> 1]
    /\ startArg = [th \in Threads |-> 1]

NextCollector ==
    \/ ClientCollect
    \/ ClientClose
    \/ WorkerIterate(1)
    \/ CloseFlag("api")
    \/ ClosePut("api")
    \/ CloseJoin("api")

SpecCollector == InitCollector /\ [][NextCollector]_vars

\* The worker thread and the thread inside close() are scheduled again and
\* again; the client is free never to call close().
FairSpecCollector ==
    /\ SpecCollector
    /\ WF_vars(WorkerIterate(1))
    /\ WF_vars(CloseFlag("api") \/ ClosePut("api") \/ CloseJoin("api"))

\* ------------------------------------------- gui.py: cleanup_and_close
\* cleanup_and_close() called on the window's own thread: no handler of the
\* window runs until it has returned.
CallCleanupAndClose ==
    /\ pc["gui"] = "idle"
    /\ pc["cleanup"] = "idle"
    /\ pc' = [pc EXCEPT !["cleanup"] = "c_mode", !["gui"] = "closing"]
    /\ UNCHANGED <<cfgVars, monPc, guiVars, plot_queue, devVars, evtVars, loopVars, dcVars,
                   smVars, ctlVars, callRun, startArg, status, emitted>>

\* cleanup_and_close, lines 417-436: only when the newest run is flagged as
\* running are the events set and data_collector.close() entered (the join on
\* the controller's storage thread gives up after its timeout); otherwise the
\* method goes straight on to close_storage.
CleanupAndCloseStop ==
    /\ pc["cleanup"] = "c_stop"
    /\ IF nRuns > 0 /\ is_experiment_running[nRuns]
          THEN /\ SetDone
               /\ plot_stop_event' = TRUE
               /\ storage_stop_event' = TRUE
               /\ pc' = [pc EXCEPT !["cleanup"] = "close_flag"]
          ELSE /\ UNCHANGED <<evtVars, monPc>>
               /\ pc' = [pc EXCEPT !["cleanup"] =
                            IF nRuns > 0 THEN "c_close_storage" ELSE "c_disconnect"]
    /\ callRun' = [callRun EXCEPT !["cleanup"] = Max(1, nRuns)]
    /\ UNCHANGED <<cfgVars, guiVars, plot_queue, devVars, loopVars, dcVars, smVars, ctlVars,
                   startArg, status, emitted>>

\* cleanup_and_close, lines 438-447: the flag is cleared (it is already clear
\* when the run was not flagged as running), then storage_manager.close_storage()
CleanupAndCloseStorage ==
    /\ pc["cleanup"] = "c_close_storage"
    /\ is_experiment_running' = [is_experiment_running EXCEPT ![callRun["cleanup"]] = FALSE]
    /\ CloseStorage(callRun["cleanup"])
    /\ pc' = [pc EXCEPT !["cleanup"] = "c_disconnect"]
    /\ UNCHANGED <<cfgVars, monPc, guiVars, plot_queue, devVars, evtVars, loopVars, dcVars, rows,
                   nRuns, sample_rate, consumerPc, callRun, startArg, status, emitted>>

\* The window with a serial port connected and stages added; the user starts
\* runs and cleanup_and_close is called at any moment.  Its first two calls
\* (operative_mode(0), set_voltage(0), lines 400-415) and its last
\* (disconnect, lines 449-464) are those of _cleanup_and_exit.
NextCleanupAndClose ==
    \/ GuiStart
    \/ PlotConsume
    \/ CallCleanupAndClose
    \/ CleanupOperativeMode
    \/ CleanupSetVoltage
    \/ CleanupAndCloseStop
    \/ CloseFlag("cleanup")
    \/ ClosePut("cleanup")
    \/ CloseJoin("cleanup")
    \/ CleanupAndCloseStorage
    \/ CleanupDisconnect
    \/ \E r \in Runs :
          \/ StorageConsumerExit(r)
          \/ LoopEnter(r)
          \/ StageBegin(r)
          \/ StepIO(r)
          \/ StepEmit(r)
          \/ StepWait(r)
          \/ StageFinal(r)
          \/ LoopFinish(r)
          \/ LoopDeviceGone(r)
          \/ WorkerIterate(r)
          \/ MonitorSignal(r)
          \/ MonitorJoin(r)
          \/ GuiCompletion(r)

SpecCleanupAndClose == Init /\ [][NextCleanupAndClose]_vars

\* ------------------------------- collect_data_with_sample_rate on its own
\* Stage lists with a ramp, a hold whose duration * rate is not an integer, and
\* two stages in a row, the first shorter than one sample interval.
LoopStageLists ==
    { <<Stage(0, 2, <<2, 1>>)>>,
      <<Stage(1, 1, <<3, 2>>)>>,
      <<Stage(2, 0, <<1, 2>>), Stage(1, 3, <<1, 1>>)>> }

\* The loop called directly, as run_experiment does, for either strategy and
\* gateway, on a device whose reads fail or succeed at every step.
InitLoop ==
    /\ InitRun
    /\ button_start = FALSE
    /\ button_stop = FALSE
    /\ stages \in LoopStageLists
    /\ plotKind = "none"
    /\ strategy \in {"Linear", "Feedforward"}
    /\ ctor = DefaultCtor
    /\ ioFail = {}
    /\ stepDurations = {<<0, 1>>}
    /\ gateway \in {"PowerSupply", "Optional"}
    /\ deviceVolts = {ReadError, 10, 30}
    /\ deviceAmps = {ReadError, 5}
    /\ nRuns = 1
    /\ sample_rate \in {[r \in Runs |-> x] : x \in {1, 2}}
    /\ loopPc = [r \in Runs |-> IF r = 1 THEN "enter" ELSE "none"]
    /\ dc_is_running = [r \in Runs |-> r = 1]
    /\ workerPc = [r \in Runs |-> IF r = 1 THEN "running" ELSE "none"]
    /\ writer = [r \in Runs |-> r = 1]
    /\ pc = [th \in Threads |-> IF th = "batch" THEN "b_run" ELSE "idle"]
    /\ callRun = [th \in Threads |-> 1]
    /\ startArg = [th \in Threads |-> 1]

\* Only the loop's own steps: the storage worker touches nothing the loop
\* reads.
NextLoop ==
    \/ LoopEnter(1)
    \/ StageBegin(1)
    \/ StepIO(1)
    \/ StepEmit(1)
    \/ StepWait(1)
    \/ StageFinal(1)
    \/ LoopFinish(1)

SpecLoop == InitLoop /\ [][NextLoop]_vars

\* ------------------------------- the loop when the body of a step is slow
\* A step body that takes no time, half a second, or three seconds (longer
\* than every stage of LoopStageLists).
SlowStepDurations == {<<0, 1>>, <<1, 2>>, <<3, 1>>}

\* The loop called directly on a device whose reads succeed, each step taking
\* any of the durations.
InitTiming ==
    /\ InitRun
    /\ button_start = FALSE
    /\ button_stop = FALSE
    /\ stages \in LoopStageLists
    /\ plotKind = "none"
    /\ strategy = "Linear"
    /\ ctor = DefaultCtor
    /\ ioFail = {}
    /\ stepDurations = SlowStepDurations
    /\ gateway = "PowerSupply"
    /\ deviceVolts = {10}
    /\ deviceAmps = {5}
    /\ nRuns = 1
    /\ sample_rate \in {[r \in Runs |-> x] : x \in {1, 2}}
    /\ loopPc = [r \in Runs |-> IF r = 1 THEN "enter" ELSE "none"]
    /\ dc_is_running = [r \in Runs |-> r = 1]
    /\ workerPc = [r \in Runs |-> IF r = 1 THEN "running" ELSE "none"]
    /\ writer = [r \in Runs |-> r = 1]
    /\ pc = [th \in Threads |-> IF th = "batch" THEN "b_run" ELSE "idle"]
    /\ callRun = [th \in Threads |-> 1]
    /\ startArg = [th \in Threads |-> 1]

SpecTiming == InitTiming /\ [][NextLoop]_vars

\* ------------------------------------------- gui.py: set_serial_port
\* set_serial_port before any run: no power supply yet, connect(port) called.
InitConnect ==
    /\ InitObjects
    /\ is_experiment_running = [r \in Runs |-> FALSE]
    /\ consumerPc = [r \in Runs |-> "none"]
    /\ stageIdx = [r \in Runs |-> 1]
    /\ step = [r \in Runs |-> 0]
    /\ cur = [r \in Runs |-> NoStage]
    /\ current_setpoint = [r \in Runs |-> <<0, 1>>]
    /\ last = [r \in Runs |-> NoLast]
    /\ setpoint = [r \in Runs |-> <<0, 1>>]
    /\ storage_queue = [r \in Runs |-> <<>>]
    /\ rows = [r \in Runs |-> <<>>]
    /\ emitted = [r \in Runs |-> <<>>]
    /\ plot_queue = <<>>
    /\ experiment_done_event = FALSE
    /\ plot_stop_event = FALSE
    /\ storage_stop_event = FALSE
    /\ protection = 0
    /\ psVoltage = <<0, 1>>
    /\ power_supply = FALSE
    /\ operative = 0
    /\ \E n \in 0..MaxRetries, f \in [1..MaxRetries -> BOOLEAN] :
          conn = [plan |-> f, retries |-> n, attempt |-> 0, state |-> "connecting",
                  result |-> "none"]
    /\ monPc = [r \in Runs |-> "none"]
    /\ status = "none"
    /\ button_start = FALSE
    /\ button_stop = FALSE
    /\ stages = <<>>
    /\ plotKind = "unbounded"
    /\ FixedDevice("Linear")
    /\ nRuns = 0
    /\ sample_rate = [r \in Runs |-> 1]
    /\ loopPc = [r \in Runs |-> "none"]
    /\ dc_is_running = [r \in Runs |-> FALSE]
    /\ workerPc = [r \in Runs |-> "none"]
    /\ writer = [r \in Runs |-> FALSE]
    /\ pc = [th \in Threads |-> "idle"]
    /\ callRun = [th \in Threads |-> 1]
    /\ startArg = [th \in Threads |-> 1]

NextConnect ==
    \/ ConnectAttempt
    \/ ConnectRaise
    \/ ConnectReturn

SpecConnect == InitConnect /\ [][NextConnect]_vars

\* ------------------------------------------- a client of a control strategy
\* Constructor arguments: PIDStrategy with its default limits and as gui.py
\* builds it (output_limits=(0, 12)), FeedforwardWithFeedbackStrategy with its
\* default limits and with limits below and above the setpoints in use.
Ctors ==
    CASE strategy = "PID" ->
           { [Kp |-> <<1, 1>>, Ki |-> <<1, 1>>, Kd |-> <<1, 1>>,
              output_limits |-> << <<0, 1>>, <<102, 1>> >>],
             [Kp |-> <<2, 1>>, Ki |-> <<1, 2>>, Kd |-> <<0, 1>>,
              output_limits |-> << <<0, 1>>, <<12, 1>> >>] }
      [] strategy = "Feedforward" ->
           { [Kp |-> <<1, 10>>, Ki |-> <<0, 1>>, Kd |-> <<0, 1>>, output_limits |-> lim] :
               lim \in { << <<0, 1>>, <<100, 1>> >>, << <<0, 1>>, <<10, 1>> >>,
                         << <<11, 1>>, <<50, 1>> >> } }
      [] OTHER -> {DefaultCtor}

\* Arguments of set_setpoint and of update
SetpointValues == {Rat(5), Rat(10)}
MeasuredValues == {Rat(0), Rat(8)}

\* A strategy object just constructed (at clock reading 0), of any class.
InitStrategy ==
    /\ InitRun
    /\ button_start = FALSE
    /\ button_stop = FALSE
    /\ stages = <<>>
    /\ plotKind = "none"
    /\ strategy \in {"Linear", "PID", "Feedforward"}
    /\ ctor \in Ctors
    /\ ioFail = {}
    /\ stepDurations = {<<0, 1>>}
    /\ gateway = "PowerSupply"
    /\ deviceVolts = {10}
    /\ deviceAmps = {5}
    /\ nRuns = 1
    /\ sample_rate = [r \in Runs |-> 1]
    /\ loopPc = [r \in Runs |-> "none"]
    /\ dc_is_running = [r \in Runs |-> FALSE]
    /\ workerPc = [r \in Runs |-> "none"]
    /\ writer = [r \in Runs |-> FALSE]
    /\ pc = [th \in Threads |-> "idle"]
    /\ callRun = [th \in Threads |-> 1]
    /\ startArg = [th \in Threads |-> 1]

NextStrategy ==
    \/ \E v \in SetpointValues : StrategySetSetpoint(v)
    \/ \E m \in MeasuredValues : StrategyUpdate(m)
    \/ StrategyReset

SpecStrategy == InitStrategy /\ [][NextStrategy]_vars

\* ------------------------------------------- a client of the StageManager
\* Arguments of add_stage: voltages and durations on both sides of its checks.
StageVoltages == {-1, 0, 2}
StageDurations == {<<-1, 1>>, <<0, 1>>, <<1, 2>>}

\* Arguments of delete_stage: every list of at most MaxIndices integers from
\* -1 to MaxStages, repeated and unsorted ones included.
IndexLists == UNION {[1..n -> -1..MaxStages] : n \in 0..MaxIndices}

\* A StageManager holding what earlier add_stage calls left in it.
InitStageManager ==
    /\ InitRun
    /\ button_start = FALSE
    /\ button_stop = FALSE
    /\ stages \in { <<>>, <<Stage(0, 2, <<2, 1>>), Stage(1, 1, <<3, 2>>), Stage(2, 0, <<1, 2>>)>> }
    /\ plotKind = "none"
    /\ FixedDevice("Linear")
    /\ nRuns = 0
    /\ sample_rate = [r \in Runs |-> 1]
    /\ loopPc = [r \in Runs |-> "none"]
    /\ dc_is_running = [r \in Runs |-> FALSE]
    /\ workerPc = [r \in Runs |-> "none"]
    /\ writer = [r \in Runs |-> FALSE]
    /\ pc = [th \in Threads |-> "idle"]
    /\ callRun = [th \in Threads |-> 1]
    /\ startArg = [th \in Threads |-> 1]

NextStageManager ==
    \/ \E vs \in StageVoltages, ve \in StageVoltages, d \in StageDurations : AddStage(vs, ve, d)
    \/ \E indices \in IndexLists : DeleteStage(indices)

SpecStageManager == InitStageManager /\ [][NextStageManager]_vars

\* ------------------------------------- gui.py: add_stage / delete_stage
\* The Add Stage handler: _validate_stage_inputs raises ValueError for what
\* add_stage would refuse, so the StageManager is called with valid input.
GuiAddStage(vs, ve, d) ==
    /\ AddStageValid(vs, ve, d)
    /\ AddStage(vs, ve, d)

\* The Delete Stage handler: the rows selected in the stage table, each once.
GuiDeleteStage(indices) ==
    /\ indices # <<>>
    /\ \A i \in DOMAIN indices : 0 <= indices[i] /\ indices[i] < Len(stages)
    /\ \A i, j \in DOMAIN indices : i < j => indices[i] < indices[j]
    /\ DeleteStage(indices)

\* The control loop of a run over a two-stage list, with the stage table of
\* the window open to the user.
InitEdit ==
    /\ InitRun
    /\ button_start = FALSE
    /\ button_stop = TRUE
    /\ stages = <<Stage(0, 2, <<1, 1>>), Stage(2, 2, <<1, 1>>)>>
    /\ plotKind = "none"
    /\ FixedDevice("Linear")
    /\ nRuns = 1
    /\ sample_rate = [r \in Runs |-> 1]
    /\ loopPc = [r \in Runs |-> IF r = 1 THEN "enter" ELSE "none"]
    /\ dc_is_running = [r \in Runs |-> r = 1]
    /\ workerPc = [r \in Runs |-> IF r = 1 THEN "running" ELSE "none"]
    /\ writer = [r \in Runs |-> r = 1]
    /\ pc = [th \in Threads |-> "idle"]
    /\ callRun = [th \in Threads |-> 1]
    /\ startArg = [th \in Threads |-> 1]

NextEdit ==
    \/ LoopEnter(1)
    \/ StageBegin(1)
    \/ StepIO(1)
    \/ StepEmit(1)
    \/ StepWait(1)
    \/ StageFinal(1)
    \/ LoopFinish(1)
    \/ \E ve \in {1, 3} : GuiAddStage(2, ve, <<1, 1>>)
    \/ \E indices \in IndexLists : GuiDeleteStage(indices)

SpecEdit == InitEdit /\ [][NextEdit]_vars

\* ------------------------------------------------------------------ claims
RealSamples(q) == {i \in DOMAIN q : ~IsSentinel(q[i])}

Emits(r) == emitted'[r] # emitted[r]

\* C1: once a protection flag (OVP/OCP/OPP/OTP/SCP) is set, the run is aborted
\* at the step boundary: the loop neither starts another step nor goes on to
\* the stage's closing write and final sample.
C1_AbortOnProtection ==
    [][\A r \in Runs : (loopPc[r] = "step_wait" /\ AnyProtection(protection)) =>
            loopPc'[r] \notin {"step_io", "stage_final"}]_vars


C3_PlotFullKeepsStorage ==
    [][\A r \in Runs : (Emits(r) /\ ~StorageFull(storage_queue[r])) =>
            storage_queue'[r] = Append(storage_queue[r], Last(emitted'[r]))]_vars

\* C4: store_data sees the samples in the order in which the loop handed them
\* to collect_data_for_stage: the stored rows are emitted samples with
\* strictly increasing emission numbers.
C4_StoredInEmissionOrder ==
    \A r \in Runs :
        /\ \A i \in DOMAIN rows[r] :
              /\ rows[r][i].seq \in DOMAIN emitted[r]
              /\ rows[r][i] = emitted[r][rows[r][i].seq]
        /\ \A i, j \in DOMAIN rows[r] : i < j => rows[r][i].seq < rows[r][j].seq

\* C4 witness: at least two samples were stored while a later one is queued.
C4_Witness ==
    /\ Len(rows[1]) >= 2
    /\ RealSamples(storage_queue[1]) # {}

\* C5: once close(), called after the loop's last sample, has returned, the
\* worker has exited and no real sample is left unprocessed on the storage
\* queue.
C5_DrainThenExit ==
    pc["batch"] \in {"b_close_storage", "b_end"} =>
        /\ workerPc[1] = "exited"
        /\ RealSamples(storage_queue[1]) = {}

\* C5 witness: close() waits in join while real samples are still queued ahead
\* of the sentinel.
C5_WitnessQueued ==
    /\ pc["batch"] = "close_join"
    /\ Len(storage_queue[1]) >= 2
    /\ ~IsSentinel(Head(storage_queue[1]))
    /\ IsSentinel(Last(storage_queue[1]))

\* C6: every started run signals completion: whenever the data-collection
\* thread of a run has ended, normally or by an exception, for any sample
\* rate, experiment_done_event has been set.
C6_DoneAlwaysSignalled ==
    \A r \in Runs : loopPc[r] \in {"done", "failed", "crashed"} => experiment_done_event

\* C7: a run whose loop ended with an exception is never reported as a normal
\* completion: the result row says "Success" only for a loop that completed.
C7_AbortedNotSuccess ==
    status = "Success" => loopPc[1] = "done"

\* C8: start_experiment called while is_experiment_running is True returns
\* without touching anything: no thread is spawned, no event is cleared, the
\* state of the running run is unchanged.
C8_StartWhileRunningNoOp ==
    [][(pc["api"] = "start" /\ pc'["api"] # "start" /\ is_experiment_running[callRun["api"]]) =>
            UNCHANGED <<cfgVars, guiVars, devVars, evtVars, loopVars, dcVars, smVars, ctlVars,
                        plot_queue, emitted, monPc, callRun, startArg, status>>]_vars

\* C8 witness: a second start_experiment, asking for another sample rate, has
\* returned while the run started by the first one is inside its loop with
\* its own sample rate.
C8_Witness ==
    /\ pc["api"] = "idle"
    /\ is_experiment_running[1]
    /\ loopPc[1] \in InTry
    /\ startArg["api"] # sample_rate[1]

\* C9: at most one data-collection thread is executing stage steps at any
\* moment.
C9_OneActiveLoop ==
    Cardinality({r \in Runs : loopPc[r] \in InTry}) <= 1

\* C10: after the caller's stop has signalled run r, the loop of run r ends at
\* the next step boundary: it neither starts another step nor goes on to the
\* stage's closing write and final sample.
C10_StopEndsLoop ==
    [][\A r \in Runs :
          (/\ callRun["gui"] = r
           /\ pc["gui"] \in {"close_flag", "close_put", "close_join", "stop_finish"}
           /\ loopPc[r] = "step_wait") =>
             loopPc'[r] \notin {"step_io", "stage_final"}]_vars

\* C11: while a control loop is running, no other thread issues a PowerSupply
\* read or write: the window-close thread performs its operative_mode(0) and
\* set_voltage(0) only when no run's loop is inside its stages.
C11_DeviceOwnedByLoop ==
    [][(/\ pc["cleanup"] \in {"c_mode", "c_voltage"}
        /\ pc'["cleanup"] # pc["cleanup"]
        /\ power_supply) =>
            ~\E r \in Runs : loopPc[r] \in InTry]_vars

\* The samples a run has emitted so far that belong to steps / close stages.
StepSamples(r) == {i \in DOMAIN emitted[r] : ~emitted[r][i].final}

FinalSamples(r) == {i \in DOMAIN emitted[r] : emitted[r][i].final}

\* C12: the final sample emitted for a stage has target_voltage exactly equal
\* to the stage's voltage_end, for ramps, holds and single-step stages.
C12_FinalTargetIsEnd ==
    \A r \in Runs : \A i \in FinalSamples(r) :
        emitted[r][i].target = <<stages[emitted[r][i].stage].voltage_end, 1>>

\* C12 witness: a finished run holds the final sample of a ramp of several
\* steps.
C12_Witness ==
    /\ loopPc[1] = "done"
    /\ \E i \in FinalSamples(1) :
          /\ emitted[1][i].step >= 2
          /\ stages[emitted[1][i].stage].voltage_start # stages[emitted[1][i].stage].voltage_end

\* C13: when the loop leaves a stage, the value last commanded to the device
\* is the stage's voltage_end, hold stages included, for every strategy.
C13_StageEndsAtVoltageEnd ==
    [][\A r \in Runs : (loopPc[r] = "stage_final" /\ loopPc'[r] # "stage_final") =>
            RatEq(psVoltage', <<cur[r].voltage_end, 1>>)]_vars

\* C14: with the Linear strategy every sample of a run, the final sample of
\* each stage included, has control_signal equal to its target_voltage.
C14_LinearControlIsTarget ==
    strategy = "Linear" =>
        \A r \in Runs : \A i \in DOMAIN emitted[r] :
            RatEq(emitted[r][i].control_signal, emitted[r][i].target)

\* ceil(n / d) for n >= 0, d > 0
CeilDiv(n, d) == (n + d - 1) \div d

\* C15: the number of step iterations executed for a stage of duration D at
\* rate R is max(1, ceil(D * R)).
C15_StepsAreCeil ==
    \A r \in Runs : loopPc[r] = "stage_final" =>
        step[r] = Max(1, CeilDiv(stages[stageIdx[r]].time[1] * sample_rate[r],
                                 stages[stageIdx[r]].time[2]))

\* C16: the sample of step k of a stage (v0, v1, D) has 0 <= k < steps and
\* target_voltage = v0 + k * (v1 - v0) / steps; step 0 has target v0 and no
\* step sample has target v1 unless v0 = v1.
C16_StepTargets ==
    \A r \in Runs : \A i \in StepSamples(r) :
        LET s == emitted[r][i]
            v0 == stages[s.stage].voltage_start
            v1 == stages[s.stage].voltage_end
            n == StepsFor(stages[s.stage].time, sample_rate[r])
        IN /\ s.step \in 0..(n - 1)
           /\ s.target[2] > 0
           /\ s.target[1] * n = (v0 * n + s.step * (v1 - v0)) * s.target[2]
           /\ s.step = 0 => RatEq(s.target, <<v0, 1>>)
           /\ RatEq(s.target, <<v1, 1>>) => v0 = v1

\* C16 witness: a sample of a step k >= 1 of a ramp has been emitted.
C16_Witness ==
    \E i \in StepSamples(1) :
        /\ emitted[1][i].step >= 1
        /\ stages[emitted[1][i].stage].voltage_start # stages[emitted[1][i].stage].voltage_end

\* <<stage, step, final>> of the samples of stage i with n steps, in order.
StageKeys(i, n) == [k \in 1..(n + 1) |-> IF k <= n THEN <<i, k - 1, FALSE>> ELSE <<i, n, TRUE>>]

RECURSIVE RunKeys(_, _)
RunKeys(i, rate) ==
    IF i > Len(stages) THEN <<>>
    ELSE StageKeys(i, StepsFor(stages[i].time, rate)) \o RunKeys(i + 1, rate)

\* C17: a completed run has emitted, in stage order then step order, one
\* sample per step and one final sample per stage, numbered without gap or
\* repetition: the sum over the stages of (steps + 1) samples.
C17_ExactSampleSequence ==
    \A r \in Runs : loopPc[r] = "done" =>
        /\ [i \in DOMAIN emitted[r] |->
              <<emitted[r][i].stage, emitted[r][i].step, emitted[r][i].final>>]
             = RunKeys(1, sample_rate[r])
        /\ \A i \in DOMAIN emitted[r] : emitted[r][i].seq = i

\* C17 witness: a run over two stages has completed with five samples.
C17_Witness ==
    /\ loopPc[1] = "done"
    /\ Len(stages) = 2
    /\ Len(emitted[1]) = 5

C19_FailedReadIsNone ==
    gateway = "PowerSupply" =>
        \A r \in Runs : \A i \in StepSamples(r) :
            /\ emitted[r][i].vraw = ReadError => emitted[r][i].vgot = None
            /\ emitted[r][i].iraw = ReadError => emitted[r][i].igot = None

\* C20: _connect_with_retries makes at most `retries` attempts, stops at the
\* first successful one, and raises exactly when all `retries` attempts
\* failed; connect() then returns failure and no power supply is set.
C20_ConnectRetries ==
    LET failed(n) == \A i \in 1..n : ~conn.plan[i] IN
    /\ conn.attempt <= conn.retries
    /\ failed(IF conn.state = "connected" THEN conn.attempt - 1 ELSE conn.attempt)
    /\ conn.state = "connected" => conn.attempt >= 1 /\ conn.plan[conn.attempt]
    /\ conn.state = "raised" <=>
          (conn.state # "connecting" /\ conn.attempt = conn.retries /\ failed(conn.retries))
    /\ conn.result = "ok" => conn.state = "connected" /\ power_supply
    /\ conn.result = "failed" => conn.state = "raised" /\ ~power_supply
    /\ power_supply => conn.result = "ok"

\* C20 witness: connect() has reported failure after three failed attempts.
C20_Witness ==
    /\ conn.retries = 3
    /\ conn.attempt = 3
    /\ conn.result = "failed"

\* C21: a start_experiment call whose sample rate is zero or negative starts
\* nothing: no control loop is spawned for the run, no stage is begun (so the
\* loop writes nothing to the device) and no sample is emitted.
C21_NonPositiveRateRejected ==
    \A th \in {"exec"} :
        startArg[th] <= 0 =>
            /\ loopPc[callRun[th]] = "none"
            /\ cur[callRun[th]] = NoStage
            /\ emitted[callRun[th]] = <<>>

\* C22: add_stage with a negative voltage or a non-positive duration raises
\* and leaves the stage list as it was; with valid arguments it appends
\* exactly that stage and leaves the stages before it as they were.
C22_AddStageValidates ==
    smCall.op = "add_stage" =>
        LET a == smCall.args IN
        IF a[1] < 0 \/ a[2] < 0 \/ a[3][1] <= 0
           THEN smCall.raised /\ stages = smCall.before
           ELSE /\ ~smCall.raised
                /\ Len(stages) = Len(smCall.before) + 1
                /\ SubSeq(stages, 1, Len(smCall.before)) = smCall.before
                /\ Last(stages) = Stage(a[1], a[2], a[3])

\* add_stage has refused its arguments on a list that already held stages.
C22_Witness == smCall.op = "add_stage" /\ smCall.raised /\ smCall.before # <<>>

\* The stages of s whose zero-based position is not in drop, in order.
RECURSIVE Without(_, _, _)
Without(s, drop, i) ==
    IF i > Len(s) THEN <<>>
    ELSE (IF (i - 1) \in drop THEN <<>> ELSE <<s[i]>>) \o Without(s, drop, i + 1)

\* C23: delete_stage(indices) leaves exactly the stages whose original
\* zero-based position is not among the indices, in their original order,
\* whatever the list of indices is.
C23_DeleteByOriginalPosition ==
    smCall.op = "delete_stage" =>
        /\ ~smCall.raised
        /\ stages = Without(smCall.before, {smCall.args[k] : k \in DOMAIN smCall.args}, 1)

\* C24: the stages a running control loop executes are those of the stage
\* list as it was when the loop started on it, in that order: every stage
\* the loop begins is the stage at that position of the original list, and
\* the loop ends after the last stage of the original list.
C24_StagesFrozenWhileRunning ==
    [][\A r \in Runs :
         /\ (loopPc[r] = "stage_begin" /\ loopPc'[r] = "step_io") =>
                /\ stageIdx[r] <= Len(iterStages[r])
                /\ cur'[r].voltage_start = iterStages[r][stageIdx[r]].voltage_start
                /\ cur'[r].voltage_end = iterStages[r][stageIdx[r]].voltage_end
                /\ cur'[r].steps = StepsFor(iterStages[r][stageIdx[r]].time, sample_rate[r])
         /\ (loopPc[r] = "stage_begin" /\ loopPc'[r] = "done") =>
                stageIdx[r] = Len(iterStages[r]) + 1]_vars

\* The calls of one kind made on the strategy so far (positions in calls).
CallsOf(op) == {i \in DOMAIN calls : calls[i].op = op}

\* C25: every update of a LinearStrategy returns the setpoint the object holds,
\* whatever the measured value, and leaves every field as it was.
C25_LinearReturnsSetpoint ==
    strategy = "Linear" =>
        \A i \in CallsOf("update") :
            /\ calls[i].value = calls[i].pre.setpoint
            /\ calls[i].post = calls[i].pre

\* An update with a measured value other than the setpoint, after a set_setpoint.
C25_Witness ==
    /\ strategy = "Linear"
    /\ \E i \in CallsOf("update") :
          /\ ~RatEq(calls[i].arg, calls[i].pre.setpoint)
          /\ ~RatEq(calls[i].pre.setpoint, <<0, 1>>)

\* C26: every value PIDStrategy.update returns lies within its output limits,
\* for every order and timing of the calls made on the object.
C26_PIDWithinLimits ==
    strategy = "PID" =>
        \A i \in CallsOf("update") :
            /\ RatLe(ctor.output_limits[1], calls[i].value)
            /\ RatLe(calls[i].value, ctor.output_limits[2])

\* Two updates whose unlimited outputs lay above the maximum and below the
\* minimum.
C26_Witness ==
    /\ strategy = "PID"
    /\ \E i \in CallsOf("update") :
          ~RatLe(calls[i].raw, ctor.output_limits[2]) /\ calls[i].value = ctor.output_limits[2]
    /\ \E i \in CallsOf("update") :
          ~RatLe(ctor.output_limits[1], calls[i].raw) /\ calls[i].value = ctor.output_limits[1]

\* C27: set_setpoint leaves a PIDStrategy with integral and previous error
\* zero, and the update that follows it returns the limited value of
\* Kp*e + Ki*(e*dt) + Kd*(e/dt), e = setpoint - measured, dt the time since
\* the set_setpoint call: a function of that update alone.
C27_SetSetpointForgets ==
    strategy = "PID" =>
        \A i \in CallsOf("set_setpoint") :
            /\ RatEq(calls[i].post.integral, <<0, 1>>)
            /\ RatEq(calls[i].post.previous_error, <<0, 1>>)
            /\ (i + 1 \in CallsOf("update")) =>
                  LET e == RatSub(calls[i].arg, calls[i + 1].arg)
                      dt == DeltaTime(calls[i + 1].t, calls[i].t)
                      out == RatAdd(RatAdd(RatMul(ctor.Kp, e), RatMul(ctor.Ki, RatMul(e, dt))),
                                    RatMul(ctor.Kd, RatDiv(e, dt)))
                  IN RatEq(calls[i + 1].value,
                           Clamp(out, ctor.output_limits[1], ctor.output_limits[2]))

\* An update with an error, then set_setpoint, then an update whose output
\* lies inside the limits.
C27_Witness ==
    /\ strategy = "PID"
    /\ \E i \in CallsOf("set_setpoint") :
          /\ i - 1 \in CallsOf("update")
          /\ ~RatEq(calls[i].pre.integral, <<0, 1>>)
          /\ ~RatEq(calls[i].pre.previous_error, <<0, 1>>)
          /\ i + 1 \in CallsOf("update")
          /\ calls[i + 1].value = calls[i + 1].raw

\* C28: FeedforwardWithFeedbackStrategy.update returns
\* setpoint + Kp*(setpoint - measured) brought into [min, max] and leaves every
\* field as it was; with setpoint 10, measured 8 and Kp 0.1 that is 10.2 when
\* the limits contain 10.2 and the nearer limit otherwise.
C28_FeedforwardOutput ==
    strategy = "Feedforward" =>
        \A i \in CallsOf("update") :
            LET sp == calls[i].pre.setpoint
                m == calls[i].arg
                lo == ctor.output_limits[1]
                hi == ctor.output_limits[2]
                out == RatAdd(sp, RatMul(ctor.Kp, RatSub(sp, m)))
            IN /\ calls[i].post = calls[i].pre
               /\ RatEq(calls[i].value,
                        IF RatLe(out, lo) THEN lo ELSE IF RatLe(hi, out) THEN hi ELSE out)
               /\ (RatEq(sp, <<10, 1>>) /\ RatEq(m, <<8, 1>>) /\ RatEq(ctor.Kp, <<1, 10>>)) =>
                     RatEq(calls[i].value,
                           IF RatLe(hi, <<102, 10>>) THEN hi
                           ELSE IF RatLe(<<102, 10>>, lo) THEN lo ELSE <<102, 10>>)

\* update(8) with setpoint 10 and Kp 0.1 under limits that contain 10.2.
C28_Witness ==
    /\ strategy = "Feedforward"
    /\ RatEq(ctor.Kp, <<1, 10>>)
    /\ \E i \in CallsOf("update") :
          /\ RatEq(calls[i].pre.setpoint, <<10, 1>>)
          /\ RatEq(calls[i].arg, <<8, 1>>)
          /\ RatEq(calls[i].value, <<102, 10>>)

\* C29: reset() leaves the object as its constructor would: setpoint,
\* integral and previous error all zero, for every strategy class.
C29_ResetIsFresh ==
    \A i \in CallsOf("reset") :
        /\ RatEq(calls[i].post.setpoint, <<0, 1>>)
        /\ RatEq(calls[i].post.integral, <<0, 1>>)
        /\ RatEq(calls[i].post.previous_error, <<0, 1>>)
        /\ calls[i].post.last_time = calls[i].t

\* C30: a sample handed to collect_data_for_stage while the live-view queue
\* is full is dropped from live view only: the call returns, the live-view
\* queue is as it was, the control loop goes on to its next statement, and
\* the sample is on the storage queue when that queue had room.
C30_PlotFullDropsLiveViewOnly ==
    [][\A r \in Runs : (Emits(r) /\ PlotFull) =>
            /\ plot_queue' = plot_queue
            /\ loopPc'[r] \in {"step_wait", "stage_begin"}
            /\ ~StorageFull(storage_queue[r]) =>
                  Len(storage_queue'[r]) = Len(storage_queue[r]) + 1]_vars

\* C31: in every shutdown path the storage sentinel is enqueued only after
\* the control loop has emitted its last sample: once the sentinel is on the
\* storage queue of a run, or the run's storage worker has exited, the loop
\* enqueues no further sample.
C31_NoSampleAfterSentinel ==
    [][\A r \in Runs :
          (\/ workerPc[r] = "exited"
           \/ \E i \in DOMAIN storage_queue[r] : IsSentinel(storage_queue[r][i])) =>
             Cardinality(RealSamples(storage_queue'[r]))
                 <= Cardinality(RealSamples(storage_queue[r]))]_vars

\* C32: in every step the value written to the device is the strategy's
\* update output for that step's measurement (the target itself for Linear,
\* feedforward plus feedback on the measurement otherwise), and the step's
\* sample records that same value as control_signal.
C32_WriteIsUpdateOutput ==
    [][\A r \in Runs :
          /\ (loopPc[r] = "step_io" /\ loopPc'[r] = "step_emit") =>
                LET target == TargetAt(cur[r], step[r])
                    out == IF strategy = "Linear" THEN target
                           ELSE FeedforwardOutput(ctor, target, last'[r].measured_voltage)
                IN /\ RatEq(psVoltage', out)
                   /\ last'[r].control_signal = psVoltage'
          /\ (loopPc[r] = "step_emit" /\ loopPc'[r] = "step_wait") =>
                /\ Last(emitted'[r]).control_signal = psVoltage
                /\ Last(emitted'[r]).measured_voltage = last[r].measured_voltage]_vars

\* C32 witness: a step of a feedforward run has written, and recorded in its
\* sample, a control signal that differs from the step's target.
C32_Witness ==
    /\ loopPc[1] = "step_wait"
    /\ strategy = "Feedforward"
    /\ emitted[1] # <<>>
    /\ Last(emitted[1]).control_signal = psVoltage
    /\ ~RatEq(psVoltage, TargetAt(cur[1], step[1]))

\* C33: within a stage set_setpoint is invoked at a step if and only if the
\* step's target differs from the setpoint last applied: once at stage start,
\* then at no step of a hold stage and at every step k >= 1 of a ramp, so that
\* the setpoint in force at every step is the step's target.
C33_SetSetpointOnChange ==
    [][\A r \in Runs :
          /\ (loopPc[r] = "stage_begin" /\ loopPc'[r] = "step_io") =>
                /\ setCalls'[r] = 1
                /\ setpoint'[r] = Rat(cur'[r].voltage_start)
          /\ (loopPc[r] = "step_io" /\ loopPc'[r] = "step_emit") =>
                LET target == TargetAt(cur[r], step[r])
                    invoked == setCalls'[r] = setCalls[r] + 1
                IN /\ setCalls'[r] \in {setCalls[r], setCalls[r] + 1}
                   /\ invoked <=> ~RatEq(target, setpoint[r])
                   /\ cur[r].voltage_start = cur[r].voltage_end =>
                         ~invoked /\ setCalls'[r] = 1
                   /\ cur[r].voltage_start # cur[r].voltage_end =>
                         (invoked <=> step[r] >= 1)
                   /\ RatEq(setpoint'[r], target)]_vars

\* C33 witness: the third step of a ramp has made the stage's third
\* set_setpoint call.
C33_Witness ==
    /\ loopPc[1] = "step_emit"
    /\ cur[1].voltage_start # cur[1].voltage_end
    /\ step[1] = 2
    /\ setCalls[1] = 3

\* C34: a missed deadline neither aborts the run nor skips a step: after a
\* step that ends past start_time + (step + 1) / R the loop goes on to the
\* next step without sleeping, a step that ends before it sleeps exactly to
\* that deadline however late earlier steps were, and a completed run has
\* emitted the sample of every step of every stage.
C34_LateStepGoesOn ==
    /\ [](\A r \in Runs : loopPc[r] = "done" =>
            [i \in DOMAIN emitted[r] |->
                <<emitted[r][i].stage, emitted[r][i].step, emitted[r][i].final>>]
              = RunKeys(1, sample_rate[r]))
    /\ [][\A r \in Runs :
            (loopPc[r] = "step_wait" /\ loopPc'[r] # "step_wait") =>
               LET deadline == <<step[r] + 1, sample_rate[r]>>
               IN /\ loopPc'[r] = IF step[r] + 1 < cur[r].steps THEN "step_io"
                                  ELSE "stage_final"
                  /\ step'[r] = step[r] + 1
                  /\ RatLe(deadline, clock[r]) => clock'[r] = clock[r]
                  /\ ~RatLe(deadline, clock[r]) => RatEq(clock'[r], deadline)]_vars

\* C34 witness: a run has completed whose last stage ended later than its
\* duration, so a deadline was missed on the way.
C34_Witness ==
    /\ loopPc[1] = "done"
    /\ ~RatLe(clock[1], <<cur[1].steps, sample_rate[1]>>)
    /\ Len(emitted[1]) = Len(RunKeys(1, sample_rate[1]))

\* C35: the run state is reset for reuse: when execute_experiment has come to
\* rest (no thread of it can take another step), a run whose control loop has
\* ended, normally or by an exception, has is_experiment_running False, so
\* that a later start_experiment would be accepted.
C35_FlagResetAfterLoop ==
    ~ENABLED NextExec =>
        \A r \in Runs : loopPc[r] \in {"done", "failed", "crashed"} => ~AlreadyRunning(r)

\* C36: when monitor_experiment has returned to execute_experiment after a
\* run that completed, the storage queue is drained and every sample emitted
\* during the run has been written by store_data.
C36_SavedWhenMonitorReturns ==
    (pc["exec"] = "e_status" /\ loopPc[1] = "done") =>
        /\ storage_queue[1] = <<>>
        /\ rows[1] = emitted[1]

\* C37: close_storage is executed only after the storage worker of the run
\* has exited, so that store_data is never invoked on a closed sink: every
\* sample handed to store_data has been written.
C37_CloseStorageAfterWorker ==
    /\ [](\A r \in Runs : rows[r] = attempts[r])
    /\ [][\A r \in Runs : (writer[r] /\ ~writer'[r]) => workerPc[r] = "exited"]_vars

\* C38: DataCollector.close() always terminates under fair scheduling:
\* whatever the queue holds when it is called and even if store_data fails
\* for every item, the sentinel put completes, the worker exits and the join
\* returns.
C38_CloseTerminates ==
    \A th \in Threads :
        (pc[th] = "close_flag") ~> (pc[th] = AfterClose(th) /\ workerPc[callRun[th]] = "exited")

\* C39: a store_data failure does not stop the storage worker: the item it
\* takes from the queue is handed to store_data once, in queue order, whether
\* or not earlier items failed; a failed item is dropped without retry and the
\* worker goes on.
C39_WorkerSurvivesFailure ==
    /\ [](\A r \in Runs :
            /\ \A i, j \in DOMAIN attempts[r] : i < j => attempts[r][i].seq < attempts[r][j].seq
            /\ \A i \in DOMAIN rows[r] : rows[r][i].seq \notin ioFail)
    /\ [][\A r \in Runs :
            (/\ storage_queue[r] # <<>>
             /\ storage_queue'[r] = Tail(storage_queue[r])
             /\ ~IsSentinel(Head(storage_queue[r]))) =>
                LET d == Head(storage_queue[r]) IN
                /\ attempts'[r] = Append(attempts[r], d)
                /\ workerPc'[r] = "running"
                /\ rows'[r] = IF writer[r] /\ d.seq \notin ioFail
                                 THEN Append(rows[r], d) ELSE rows[r]]_vars

\* C39 witness: a sample whose store_data failed is followed by a later sample
\* that was written.
C39_Witness ==
    /\ writer[1]
    /\ \E i, j \in DOMAIN attempts[1] :
          /\ i < j
          /\ attempts[1][i].seq \in ioFail
          /\ \E k \in DOMAIN rows[1] : rows[1][k] = attempts[1][j]

====
